---- MODULE Spec2Model ----
(***************************************************************************)
(* The plan-act-reflect loop of backend/app/workflows/autonomous_agent.py  *)
(* (execute), as a state machine.  One execution runs as a sequential      *)
(* chain of suspending operations: every await of an LLM call or of a      *)
(* tool handler is a position of pc, and one action is the code that runs  *)
(* from one await (or the loop head) to the next.                          *)
(*                                                                         *)
(* Python values: a dict is a record (a function on its keys), d.get(k, v) *)
(* is Get(d, k, v), d[k] on an absent key raises KeyError.  A str is a     *)
(* sequence of chunks, concatenation is \o, "" is << >>.                   *)
(***************************************************************************)
EXTENDS Naturals, Integers, Sequences, FiniteSets, TLC

VARIABLES
    pc,                 \* position of execute(): loop head, an await, done, raised
    max_iterations,     \* argument of execute()
    available_tools,    \* argument of execute(): the tool registry, in order
    iteration,          \* local: the loop counter
    final_response,     \* local: the string execute() returns
    agent_memory,       \* local dict: iterations, observations, task_complete
    intermediate_steps, \* local list: the trace of AgentResponse
    action,             \* local: the action of the current iteration
    observation,        \* local: the observation of the current iteration
    exception,          \* the exception that escaped execute(), if any
    calls,              \* history: every external call issued so far, in order
    last_outcome,       \* history: what the most recent external call came back with
    degraded_only,      \* history: every structured call so far was mismatched or raised
    llm_client,         \* module global _llm_client of core/llm_client.py: the singleton
    running,            \* event loop: the execution whose frame the variables above hold
    suspended,          \* event loop: the frames of the executions waiting at an await
    argument,           \* a call of one of the helper functions: its name and its input
    result              \* what that call handed back

vars == <<pc, max_iterations, available_tools, iteration, final_response,
          agent_memory, intermediate_steps, action, observation, exception,
          calls, last_outcome, degraded_only, llm_client, running, suspended,
          argument, result>>

args == <<max_iterations, available_tools>>

scheduler == <<running, suspended>>

library == <<argument, result>>

----------------------------------------------------------------------------
(* Bounds of the model *)

MaxIterations == 2

----------------------------------------------------------------------------
(* Python helpers *)

Has(d, k) == k \in DOMAIN d

Get(d, k, default) == IF k \in DOMAIN d THEN d[k] ELSE default

Last(s) == s[Len(s)]

NoValue == [none |-> TRUE]

----------------------------------------------------------------------------
(* The external world: what a call can come back with *)

Returns(v) == [raised |-> FALSE, value |-> v]

Raises(e) == [raised |-> TRUE, error |-> e]

ErrorText == <<"boom">>

ToolCall(n, a) == [type |-> "tool_call", name |-> n, arguments |-> a]

TextResult(c) == [type |-> "text", content |-> c]

PlanPayloads ==
    { [task_understanding |-> <<"understood">>, plan_steps |-> <<"step 1">>,
       expected_outcome |-> <<"success">>],
      [plan_steps |-> <<"step 1">>, expected_outcome |-> <<"success">>] }

ToolParameters == [text |-> <<"hi">>]

ActionPayloads ==
    { [action_type |-> "use_tool", tool_name |-> <<"echo">>, tool_parameters |-> ToolParameters],
      [action_type |-> "use_tool", tool_name |-> <<"ECHO">>, tool_parameters |-> ToolParameters],
      [action_type |-> "use_tool", tool_name |-> <<"nofn">>, tool_parameters |-> ToolParameters],
      [action_type |-> "use_tool", tool_name |-> <<"late">>, tool_parameters |-> ToolParameters],
      [action_type |-> "reasoning", reasoning |-> <<"thinking">>],
      [action_type |-> "intermediate_result", result |-> <<"partial">>],
      [action_type |-> "final_result", result |-> <<"Done">>],
      [action_type |-> "final_result"],
      [action_type |-> "noop"],
      [reasoning |-> <<"thinking">>] }

ReflectionPayloads ==
    { [progress_assessment |-> <<"assessed">>, task_complete |-> b] : b \in BOOLEAN }

\* The outcomes of generate_with_tools_async for a call constrained to function fn.
StructuredOutcomes(fn, payloads) ==
    { Returns(ToolCall(fn, a)) : a \in payloads }
    \cup { Returns(ToolCall("other_function", a)) : a \in {CHOOSE p \in payloads : TRUE} }
    \cup { Returns(TextResult(<<"free text">>)), Raises(ErrorText) }

\* The outcomes of generate_text_async.
TextOutcomes == { Returns(<<"summary">>), Returns(<< >>), Raises(ErrorText) }

\* The outcomes of a tool handler: h1 may fail, the other handlers always return.
ToolOutcomes(handler) ==
    { Returns(<<"hi">>) } \cup (IF handler = "h1" THEN { Raises(ErrorText) } ELSE { })

Tool(n, f) == [name |-> n, function |-> f]

\* One registry with a duplicate name ("echo"), an entry without a handler ("nofn"),
\* and a name whose first entry has no handler and whose second has one ("late").
Registries ==
    { << Tool(<<"late">>, "None"), Tool(<<"echo">>, "h1"), Tool(<<"nofn">>, "None"),
         Tool(<<"echo">>, "h2"), Tool(<<"late">>, "h3") >> }


----------------------------------------------------------------------------
(* Initial state: execute() is entered, nothing has run *)

DefaultFinalResponse == <<"Task processed, but no specific result was generated.">>

Init ==
    /\ pc = "start"
    /\ max_iterations \in -1 .. MaxIterations
    /\ available_tools \in Registries
    /\ iteration = 0
    /\ final_response = DefaultFinalResponse
    /\ agent_memory = [iterations |-> << >>, observations |-> << >>, task_complete |-> FALSE]
    /\ intermediate_steps = << >>
    /\ action = NoValue
    /\ observation = << >>
    /\ exception = "none"
    /\ calls = << >>
    /\ last_outcome = NoValue
    /\ degraded_only = TRUE
    /\ llm_client = NoValue
    /\ running = 1
    /\ suspended = [e \in { } |-> NoValue]
    /\ argument = NoValue
    /\ result = NoValue

----------------------------------------------------------------------------
(* The calls execute() issues, and the trace entries it appends *)

\* client.generate_with_tools_async(..., allowed_function_names=[fn])
StructuredCall(fn, temperature, i, context) ==
    [kind |-> "generate_with_tools_async", function |-> fn, temperature |-> temperature,
     iteration |-> i, context |-> context]

\* client.generate_text_async(summary_prompt, temperature=0.7)
SummaryCall(i, context) ==
    [kind |-> "generate_text_async", function |-> "", temperature |-> "0.7",
     iteration |-> i, context |-> context]

\* tool.function(**tool_parameters)
HandlerCall(handler, i, parameters) ==
    [kind |-> "tool", function |-> handler, temperature |-> "",
     iteration |-> i, context |-> parameters]

AgentResponse(role, content, metadata) ==
    [agent_role |-> role, content |-> content, metadata |-> metadata]

\* Mutant of Catches: the planning call is made outside its try block.
CatchesAllButPlanning(phase) == phase \in {"acting", "tool", "reflecting", "summarizing"}

\* The try/except Exception blocks: the awaits whose exceptions execute() catches.
Catches(phase) == phase \in {"planning", "acting", "tool", "reflecting", "summarizing"}

\* An exception leaves execute().
Escape(e) ==
    /\ pc' = "raised"
    /\ exception' = e

Matches(response, fn) == response.type = "tool_call" /\ response.name = fn

\* A structured call came back without the requested function call.
Degraded(o, fn) == o.raised \/ ~Matches(o.value, fn)

----------------------------------------------------------------------------
(* After the loop: the summarization fallback and the trailing trace entry *)

\* Mutant of SummarizerEntry: it reports the bound instead of the counter.
SummarizerEntryReportsBound(i, memory) ==
    AgentResponse("Task Summarizer", <<"Summary of execution:\n">>,
        [iterations |-> max_iterations, task_complete |-> memory.task_complete,
         memory |-> memory])

SummarizerEntry(i, memory) ==
    AgentResponse("Task Summarizer",
        <<"Summary of execution:\n", "- Completed ", ToString(i), " iterations\n",
          "- Task complete: ", (IF memory.task_complete THEN "Yes" ELSE "No"), "\n",
          "- Final response generated">>,
        [iterations |-> i, task_complete |-> memory.task_complete, memory |-> memory])

\* Mutant of NeedsSummary: the test is inverted.
NeedsSummaryWhenComplete(complete) == complete

\* Mutant of NeedsSummary: the summarization pass runs unconditionally.
NeedsSummaryAlways(complete) == TRUE

NeedsSummary(complete) == ~complete

\* From the loop's exit to the summarization await, or to the return.
AfterLoop(memory, steps, response) ==
    /\ iteration' = iteration
    /\ agent_memory' = memory
    /\ final_response' = response
    /\ IF NeedsSummary(memory.task_complete)
       THEN /\ calls' = Append(calls, SummaryCall(iteration, [history |-> Len(memory.iterations)]))
            /\ pc' = "summarizing"
            /\ intermediate_steps' = steps
       ELSE /\ calls' = calls
            /\ pc' = "done"
            /\ intermediate_steps' = Append(steps, SummarizerEntry(iteration, memory))

\* Mutant of SummaryResponse: the error note replaces the placeholder.
SummaryResponseDropsPlaceholder(o, response) ==
    IF o.raised THEN <<"Error generating summary: ">> \o o.error
    ELSE o.value

\* Mutant of SummaryResponse: the summary is appended to the placeholder too.
SummaryResponseAppends(o, response) ==
    IF o.raised THEN response \o <<" Error generating summary: ">> \o o.error
    ELSE response \o o.value

SummaryResponse(o, response) ==
    IF o.raised THEN response \o <<" Error generating summary: ">> \o o.error
    ELSE o.value

SummaryReturns(o) ==
    /\ pc = "summarizing"
    /\ last_outcome' = o
    /\ IF o.raised /\ ~Catches("summarizing")
       THEN /\ Escape("ProviderError")
            /\ UNCHANGED <<final_response, intermediate_steps>>
       ELSE /\ final_response' = SummaryResponse(o, final_response)
            /\ intermediate_steps' = Append(intermediate_steps,
                                            SummarizerEntry(iteration, agent_memory))
            /\ pc' = "done"
            /\ UNCHANGED exception
    /\ UNCHANGED <<args, iteration, agent_memory, action, observation, calls, degraded_only,
                   llm_client, scheduler, library>>

----------------------------------------------------------------------------
(* The loop head *)

\* Mutant of LoopCondition: the bound is not tested.
LoopConditionIgnoresBound(i, m, complete) == ~complete

\* Mutant of LoopCondition: the bound is off by one.
LoopConditionInclusive(i, m, complete) == i <= m /\ ~complete

\* Mutant of LoopCondition: the loop stops one pass short of the bound.
LoopConditionStopsEarly(i, m, complete) == i + 1 < m /\ ~complete

\* Mutant of LoopCondition: the body runs once before the bound is tested.
LoopConditionAtLeastOnce(i, m, complete) == (i < m \/ i = 0) /\ ~complete

\* Mutant of LoopCondition: the counter is compared with twice the bound.
LoopConditionDoubleBudget(i, m, complete) == i < 2 * m /\ ~complete

LoopCondition(i, m, complete) == i < m /\ ~complete

\* Mutant of LoopHead: the acting call is issued together with the planning call.
LoopHeadIssuesTwoCalls(memory, steps) ==
    IF LoopCondition(iteration, max_iterations, memory.task_complete)
    THEN /\ iteration' = iteration + 1
         /\ calls' = Append(Append(calls,
                         StructuredCall("create_task_plan", "0.4", iteration + 1,
                                        [history |-> Len(memory.iterations)])),
                         StructuredCall("execute_action", "0.5", iteration + 1,
                                        [observations |-> memory.observations]))
         /\ pc' = "planning"
         /\ agent_memory' = memory
         /\ intermediate_steps' = steps
         /\ final_response' = final_response
    ELSE AfterLoop(memory, steps, final_response)

\* From the while test to the planning await of the next iteration, or out of the loop.
LoopHead(memory, steps) ==
    IF LoopCondition(iteration, max_iterations, memory.task_complete)
    THEN /\ iteration' = iteration + 1
         /\ calls' = Append(calls, StructuredCall("create_task_plan", "0.4", iteration + 1,
                                                  [history |-> Len(memory.iterations)]))
         /\ pc' = "planning"
         /\ agent_memory' = memory
         /\ intermediate_steps' = steps
         /\ final_response' = final_response
    ELSE AfterLoop(memory, steps, final_response)

\* The n-th GeminiAIClient object constructed by the process.
Instance(n) == [instance |-> n]

\* What reading settings.GOOGLE_API_KEY and building genai.Client() can give:
\* the Settings object has no such attribute, the key is empty, the key is set
\* but genai.Client() raises, or the key is set and the client is built.
ApiKeys == {"undeclared", "", "unusable", "key"}

AttributeError == <<"'Settings' object has no attribute 'GOOGLE_API_KEY'">>

MissingConfiguration == <<"Missing Google GenAI configuration. Required: GOOGLE_API_KEY">>

ClientError == <<"genai.Client() failed">>

\* GeminiAIClient.__init__: the n-th object, or the exception of the constructor.
GeminiAIClient(key, n) ==
    IF key = "undeclared" THEN Raises(AttributeError)
    ELSE IF key = "" THEN Raises(MissingConfiguration)
    ELSE IF key = "unusable" THEN Raises(ClientError)
    ELSE Returns(Instance(n))

\* An accessor that builds a client on every call.
get_llm_client_builds_each_time(current, construction) ==
    IF construction.raised
    THEN [global |-> current, outcome |-> construction]
    ELSE [global |-> construction.value, outcome |-> construction]

\* get_llm_client(): the module global after the call, and what the call came back
\* with.  The constructor runs only while the global is None, and when it raises
\* the assignment to the global does not happen.
get_llm_client(current, construction) ==
    IF current = NoValue
    THEN IF construction.raised
         THEN [global |-> NoValue, outcome |-> construction]
         ELSE [global |-> construction.value, outcome |-> Returns(construction.value)]
    ELSE [global |-> current, outcome |-> Returns(current)]

Begin ==
    /\ pc = "start"
    /\ llm_client' = get_llm_client(llm_client, GeminiAIClient("key", 1)).global
    /\ LoopHead(agent_memory, intermediate_steps)
    /\ UNCHANGED <<args, action, observation, exception, last_outcome, degraded_only,
                   scheduler, library>>

----------------------------------------------------------------------------
(* Step 1: the planning phase *)

FallbackPlan ==
    [task_understanding |-> <<"Fallback plan">>, plan_steps |-> << >>,
     expected_outcome |-> <<"Best effort.">>]

ErrorPlan(e) ==
    [task_understanding |-> <<"Error: ">> \o e, plan_steps |-> << >>,
     expected_outcome |-> <<"Error occurred.">>]

\* Mutant of DecodePlan: the name of the returned function is not compared.
DecodePlanIgnoresName(o) ==
    IF o.raised THEN ErrorPlan(o.error)
    ELSE IF o.value.type = "tool_call" THEN o.value.arguments
    ELSE FallbackPlan

DecodePlan(o) ==
    IF o.raised THEN ErrorPlan(o.error)
    ELSE IF Matches(o.value, "create_task_plan") THEN o.value.arguments
    ELSE FallbackPlan

PlanningReturns(o) ==
    LET plan == DecodePlan(o)
        memory == [agent_memory EXCEPT !.iterations = Append(@, [plan |-> plan])]
    IN  /\ pc = "planning"
        /\ last_outcome' = o
        /\ degraded_only' = (degraded_only /\ Degraded(o, "create_task_plan"))
        /\ IF o.raised /\ ~Catches("planning")
           THEN /\ Escape("ProviderError")
                /\ UNCHANGED <<agent_memory, intermediate_steps, calls>>
           ELSE IF ~Has(plan, "task_understanding")
           THEN /\ agent_memory' = memory
                /\ Escape("KeyError: 'task_understanding'")
                /\ UNCHANGED <<intermediate_steps, calls>>
           ELSE /\ agent_memory' = memory
                /\ intermediate_steps' = Append(intermediate_steps,
                       AgentResponse("Task Planner",
                                     <<"Plan created: ">> \o plan.task_understanding, plan))
                /\ calls' = Append(calls, StructuredCall("execute_action", "0.5", iteration,
                                               [observations |-> memory.observations]))
                /\ pc' = "acting"
                /\ UNCHANGED exception
        /\ UNCHANGED <<args, iteration, final_response, action, observation,
                       llm_client, scheduler, library>>

----------------------------------------------------------------------------
(* Step 2: the acting phase *)

FallbackAction ==
    [action_type |-> "reasoning", reasoning |-> <<"Unable to determine next action.">>]

ErrorAction(e) ==
    [action_type |-> "reasoning", reasoning |-> <<"Error occurred: ">> \o e]

\* Mutant of DecodeAction: the name of the returned function is not compared.
DecodeActionIgnoresName(o) ==
    IF o.raised THEN ErrorAction(o.error)
    ELSE IF o.value.type = "tool_call" THEN o.value.arguments
    ELSE FallbackAction

DecodeAction(o) ==
    IF o.raised THEN ErrorAction(o.error)
    ELSE IF Matches(o.value, "execute_action") THEN o.value.arguments
    ELSE FallbackAction

\* The test of the registry scan.
ToolMatches(tool, tool_name) == tool.name = tool_name /\ tool.function # "None"

\* The scan of the registry: the index of the entry whose handler is invoked, 0 if none.
FindTool(tools, tool_name) ==
    IF \E i \in 1 .. Len(tools) : ToolMatches(tools[i], tool_name)
    THEN CHOOSE i \in 1 .. Len(tools) :
            /\ ToolMatches(tools[i], tool_name)
            /\ \A j \in 1 .. (i - 1) : ~ToolMatches(tools[j], tool_name)
    ELSE 0

ToolNotFound(tool_name) == <<"Tool '">> \o tool_name \o <<"' not found or not executable.">>

\* Mutant of Observe: the scan's miss leaves the initial observation.
ObserveKeepsDefault(a) ==
    IF a.action_type = "reasoning"
    THEN <<"Reasoning: ">> \o Get(a, "reasoning", <<"No reasoning provided.">>)
    ELSE IF a.action_type \in {"intermediate_result", "final_result"}
    THEN <<"Result: ">> \o Get(a, "result", <<"No result provided.">>)
    ELSE <<"No observation recorded.">>

\* Mutant of Observe: an action of an unknown type is observed as reasoning.
ObserveUnknownAsReasoning(a) ==
    IF a.action_type = "use_tool"
    THEN ToolNotFound(Get(a, "tool_name", << >>))
    ELSE IF a.action_type \in {"intermediate_result", "final_result"}
    THEN <<"Result: ">> \o Get(a, "result", <<"No result provided.">>)
    ELSE <<"Reasoning: ">> \o Get(a, "reasoning", <<"No reasoning provided.">>)

\* The observation of an action that awaits no tool handler.
Observe(a) ==
    IF a.action_type = "use_tool"
    THEN ToolNotFound(Get(a, "tool_name", << >>))
    ELSE IF a.action_type = "reasoning"
    THEN <<"Reasoning: ">> \o Get(a, "reasoning", <<"No reasoning provided.">>)
    ELSE IF a.action_type \in {"intermediate_result", "final_result"}
    THEN <<"Result: ">> \o Get(a, "result", <<"No result provided.">>)
    ELSE <<"No observation recorded.">>

\* Mutant of IsFinalResult: an intermediate result completes the task as well.
IsAnyResult(a) == a.action_type \in {"intermediate_result", "final_result"}

\* Mutant of IsFinalResult: the test compares with a literal no action carries.
IsFinalResultMistyped(a) == a.action_type = "final"

IsFinalResult(a) == a.action_type = "final_result"

FinalResultOf(a) == Get(a, "result", <<"Task completed.">>)

\* json.dumps of the tool parameters
JsonDumps(parameters) ==
    IF DOMAIN parameters = {} THEN <<"{}">>
    ELSE <<"{", "text", ": ">> \o parameters.text \o <<"}">>

format_action_content(a, obs) ==
    IF a.action_type = "use_tool"
    THEN <<"Tool Used: ">> \o Get(a, "tool_name", <<"Unknown">>) \o <<"\n\nParameters: ">>
         \o JsonDumps(Get(a, "tool_parameters", << >>)) \o <<"\n\nObservation: ">> \o obs
    ELSE IF a.action_type = "reasoning"
    THEN <<"Reasoning:\n">> \o Get(a, "reasoning", <<"No reasoning provided.">>)
         \o <<"\n\nObservation: ">> \o obs
    ELSE IF a.action_type \in {"intermediate_result", "final_result"}
    THEN <<(IF a.action_type = "final_result" THEN "Final" ELSE "Intermediate")>>
         \o <<" Result:\n">> \o Get(a, "result", <<"No result provided.">>)
         \o <<"\n\nObservation: ">> \o obs
    ELSE <<"Unknown action type: ", a.action_type, "\n\nObservation: ">> \o obs

\* Mutant of BreakAfterAction: the break is missing.
BreakNever(complete) == FALSE

\* The break after the action step.
BreakAfterAction(complete) == complete

\* Mutant of RecordAction: the observation is not appended to the observation list.
RecordActionSkipsObservations(a, obs, response, complete) ==
    LET n == Len(agent_memory.iterations)
        record == [action |-> a, observation |-> obs] @@ agent_memory.iterations[n]
        memory == [iterations |-> [agent_memory.iterations EXCEPT ![n] = record],
                   observations |-> agent_memory.observations,
                   task_complete |-> complete]
        steps == Append(intermediate_steps,
                    AgentResponse("Action Executor", format_action_content(a, obs),
                                  [action |-> a, observation |-> obs]))
    IN  /\ observation' = obs
        /\ IF BreakAfterAction(complete)
           THEN AfterLoop(memory, steps, response)
           ELSE /\ pc' = "reflecting"
                /\ calls' = Append(calls, StructuredCall("reflect_on_progress", "0.4", iteration,
                                               [history |-> Len(memory.iterations)]))
                /\ iteration' = iteration
                /\ agent_memory' = memory
                /\ intermediate_steps' = steps
                /\ final_response' = response

\* Mutant of RecordAction: the action is stored in a new record of the list.
RecordActionInNewRecord(a, obs, response, complete) ==
    LET memory == [iterations |-> Append(agent_memory.iterations,
                                         [action |-> a, observation |-> obs]),
                   observations |-> Append(agent_memory.observations, obs),
                   task_complete |-> complete]
        steps == Append(intermediate_steps,
                    AgentResponse("Action Executor", format_action_content(a, obs),
                                  [action |-> a, observation |-> obs]))
    IN  /\ observation' = obs
        /\ IF BreakAfterAction(complete)
           THEN AfterLoop(memory, steps, response)
           ELSE /\ pc' = "reflecting"
                /\ calls' = Append(calls, StructuredCall("reflect_on_progress", "0.4", iteration,
                                               [history |-> Len(memory.iterations)]))
                /\ iteration' = iteration
                /\ agent_memory' = memory
                /\ intermediate_steps' = steps
                /\ final_response' = response

\* Mutant of RecordAction: the observation list holds the last observation only.
RecordActionKeepsLastObservation(a, obs, response, complete) ==
    LET n == Len(agent_memory.iterations)
        record == [action |-> a, observation |-> obs] @@ agent_memory.iterations[n]
        memory == [iterations |-> [agent_memory.iterations EXCEPT ![n] = record],
                   observations |-> <<obs>>,
                   task_complete |-> complete]
        steps == Append(intermediate_steps,
                    AgentResponse("Action Executor", format_action_content(a, obs),
                                  [action |-> a, observation |-> obs]))
    IN  /\ observation' = obs
        /\ IF BreakAfterAction(complete)
           THEN AfterLoop(memory, steps, response)
           ELSE /\ pc' = "reflecting"
                /\ calls' = Append(calls, StructuredCall("reflect_on_progress", "0.4", iteration,
                                               [history |-> Len(memory.iterations)]))
                /\ iteration' = iteration
                /\ agent_memory' = memory
                /\ intermediate_steps' = steps
                /\ final_response' = response

\* From the end of the dispatch to the next await: store, record, then break or reflect.
RecordAction(a, obs, response, complete) ==
    LET n == Len(agent_memory.iterations)
        record == [action |-> a, observation |-> obs] @@ agent_memory.iterations[n]
        memory == [iterations |-> [agent_memory.iterations EXCEPT ![n] = record],
                   observations |-> Append(agent_memory.observations, obs),
                   task_complete |-> complete]
        steps == Append(intermediate_steps,
                    AgentResponse("Action Executor", format_action_content(a, obs),
                                  [action |-> a, observation |-> obs]))
    IN  /\ observation' = obs
        /\ IF BreakAfterAction(complete)
           THEN AfterLoop(memory, steps, response)
           ELSE /\ pc' = "reflecting"
                /\ calls' = Append(calls, StructuredCall("reflect_on_progress", "0.4", iteration,
                                               [history |-> Len(memory.iterations)]))
                /\ iteration' = iteration
                /\ agent_memory' = memory
                /\ intermediate_steps' = steps
                /\ final_response' = response

ActingReturns(o) ==
    LET a == DecodeAction(o)
        found == FindTool(available_tools, Get(a, "tool_name", << >>))
    IN  /\ pc = "acting"
        /\ last_outcome' = o
        /\ degraded_only' = (degraded_only /\ Degraded(o, "execute_action"))
        /\ IF o.raised /\ ~Catches("acting")
           THEN /\ Escape("ProviderError")
                /\ UNCHANGED <<iteration, final_response, agent_memory, intermediate_steps,
                               action, observation, calls>>
           ELSE IF ~Has(a, "action_type")
           THEN /\ action' = a
                /\ Escape("KeyError: 'action_type'")
                /\ UNCHANGED <<iteration, final_response, agent_memory, intermediate_steps,
                               observation, calls>>
           ELSE IF a.action_type = "use_tool" /\ found # 0
           THEN /\ action' = a
                /\ pc' = "tool"
                /\ calls' = Append(calls, HandlerCall(available_tools[found].function, iteration,
                                                      Get(a, "tool_parameters", << >>)))
                /\ UNCHANGED <<iteration, final_response, agent_memory, intermediate_steps,
                               observation, exception>>
           ELSE /\ action' = a
                /\ RecordAction(a, Observe(a),
                                IF IsFinalResult(a) THEN FinalResultOf(a) ELSE final_response,
                                IF IsFinalResult(a) THEN TRUE ELSE agent_memory.task_complete)
                /\ UNCHANGED exception
        /\ UNCHANGED <<args, llm_client, scheduler, library>>

\* Mutant of ToolObservation: the returned value is wrapped in a label.
ToolObservationLabelled(o, tool_name) ==
    IF o.raised THEN ToolNotFound(tool_name) ELSE <<"Result: ">> \o o.value

\* The handler came back: tool_found is set only when it returned, and an observation
\* written while tool_found is false is overwritten after the scan.
ToolObservation(o, tool_name) ==
    LET tool_found == ~o.raised
        first == IF o.raised
                 THEN <<"Error executing tool ">> \o tool_name \o <<": ">> \o o.error
                 ELSE o.value
    IN  IF ~tool_found THEN ToolNotFound(tool_name) ELSE first

ToolReturns(o) ==
    /\ pc = "tool"
    /\ last_outcome' = o
    /\ IF o.raised /\ ~Catches("tool")
       THEN /\ Escape("ToolError")
            /\ UNCHANGED <<iteration, final_response, agent_memory, intermediate_steps,
                           observation, calls>>
       ELSE /\ RecordAction(action, ToolObservation(o, Get(action, "tool_name", << >>)),
                            final_response, agent_memory.task_complete)
            /\ UNCHANGED exception
    /\ UNCHANGED <<args, action, degraded_only, llm_client, scheduler, library>>

----------------------------------------------------------------------------
(* Step 3: the reflection phase *)

FallbackReflection ==
    [progress_assessment |-> <<"Unable to assess progress.">>, task_complete |-> FALSE]

\* Mutant of ErrorReflection: the error reflection reports the task as complete.
ErrorReflectionCompletes(e) ==
    [progress_assessment |-> <<"Error occurred: ">> \o e, task_complete |-> TRUE]

ErrorReflection(e) ==
    [progress_assessment |-> <<"Error occurred: ">> \o e, task_complete |-> FALSE]

DecodeReflection(o) ==
    IF o.raised THEN ErrorReflection(o.error)
    ELSE IF Matches(o.value, "reflect_on_progress") THEN o.value.arguments
    ELSE FallbackReflection

\* The statements that store the reflection are indented under the except clause:
\* they run only when the reflection call raised.
ReflectionStored(o) == o.raised

ReflectingReturns(o) ==
    LET reflection == DecodeReflection(o)
        n == Len(agent_memory.iterations)
        complete == Get(reflection, "task_complete", FALSE)
        memory == [agent_memory EXCEPT
                     !.task_complete = complete,
                     !.iterations[n] = [reflection |-> reflection] @@ @]
        steps == Append(intermediate_steps,
                    AgentResponse("Progress Reflector",
                                  <<"Assessment: ">> \o reflection.progress_assessment,
                                  reflection))
    IN  /\ pc = "reflecting"
        /\ last_outcome' = o
        /\ degraded_only' = (degraded_only /\ Degraded(o, "reflect_on_progress"))
        /\ IF o.raised /\ ~Catches("reflecting")
           THEN /\ Escape("ProviderError")
                /\ UNCHANGED <<iteration, final_response, agent_memory, intermediate_steps,
                               calls>>
           ELSE /\ IF ReflectionStored(o)
                   THEN IF complete
                        THEN AfterLoop(memory, steps, final_response)
                        ELSE LoopHead(memory, steps)
                   ELSE LoopHead(agent_memory, intermediate_steps)
                /\ UNCHANGED exception
        /\ UNCHANGED <<args, action, observation, llm_client, scheduler, library>>

----------------------------------------------------------------------------
(* The specification *)

Next ==
    \/ Begin
    \/ \E o \in StructuredOutcomes("create_task_plan", PlanPayloads) : PlanningReturns(o)
    \/ \E o \in StructuredOutcomes("execute_action", ActionPayloads) : ActingReturns(o)
    \/ pc = "tool" /\ \E o \in ToolOutcomes(Last(calls).function) : ToolReturns(o)
    \/ \E o \in StructuredOutcomes("reflect_on_progress", ReflectionPayloads) : ReflectingReturns(o)
    \/ \E o \in TextOutcomes : SummaryReturns(o)

Spec == Init /\ [][Next]_vars

\* Every external call comes back (returns or raises), and the code between awaits runs.
FairSpec == Spec /\ WF_vars(Next)

----------------------------------------------------------------------------
(* Concurrent executions: every request awaits its own call of execute() on *)
(* one event loop.  A coroutine runs without interruption from one await to *)
(* the next, so an execution's step is one of the actions above; at an      *)
(* await the loop may resume another execution.  The variables hold the     *)
(* frame of the running execution, suspended holds the frames of the rest.  *)
(* The tool registry and the client singleton are not part of a frame.      *)

Executions == {1, 2}

\* max_iterations of the requests that run concurrently.
ConcurrentBudgets == {0, 1}

\* The locals of the running call of execute().
Frame ==
    [pc |-> pc, max_iterations |-> max_iterations, iteration |-> iteration,
     final_response |-> final_response, agent_memory |-> agent_memory,
     intermediate_steps |-> intermediate_steps, action |-> action,
     observation |-> observation, exception |-> exception, calls |-> calls,
     last_outcome |-> last_outcome, degraded_only |-> degraded_only]

\* The locals of a call of execute() that has not run yet.
InitialFrame(m) ==
    [pc |-> "start", max_iterations |-> m, iteration |-> 0,
     final_response |-> DefaultFinalResponse,
     agent_memory |-> [iterations |-> << >>, observations |-> << >>, task_complete |-> FALSE],
     intermediate_steps |-> << >>, action |-> NoValue, observation |-> << >>,
     exception |-> "none", calls |-> << >>, last_outcome |-> NoValue,
     degraded_only |-> TRUE]

\* Mutant of FrameMemory: agent_memory is one module-level dict shared by all calls.
ModuleLevelMemory(own, live) == live

\* agent_memory is a dict built inside execute(): every call has its own.
FrameMemory(own, live) == own

\* The event loop suspends the running execution at its await and resumes execution e.
Switch(e) ==
    /\ e \in DOMAIN suspended
    /\ running' = e
    /\ suspended' = [x \in (DOMAIN suspended \ {e}) \cup {running} |->
                        IF x = running THEN Frame ELSE suspended[x]]
    /\ pc' = suspended[e].pc
    /\ max_iterations' = suspended[e].max_iterations
    /\ iteration' = suspended[e].iteration
    /\ final_response' = suspended[e].final_response
    /\ agent_memory' = FrameMemory(suspended[e].agent_memory, agent_memory)
    /\ intermediate_steps' = suspended[e].intermediate_steps
    /\ action' = suspended[e].action
    /\ observation' = suspended[e].observation
    /\ exception' = suspended[e].exception
    /\ calls' = suspended[e].calls
    /\ last_outcome' = suspended[e].last_outcome
    /\ degraded_only' = suspended[e].degraded_only
    /\ UNCHANGED <<available_tools, llm_client, library>>

ConcurrentInit ==
    /\ pc = "start"
    /\ max_iterations \in ConcurrentBudgets
    /\ available_tools \in Registries
    /\ iteration = 0
    /\ final_response = DefaultFinalResponse
    /\ agent_memory = [iterations |-> << >>, observations |-> << >>, task_complete |-> FALSE]
    /\ intermediate_steps = << >>
    /\ action = NoValue
    /\ observation = << >>
    /\ exception = "none"
    /\ calls = << >>
    /\ last_outcome = NoValue
    /\ degraded_only = TRUE
    /\ llm_client = NoValue
    /\ running = 1
    /\ suspended \in [Executions \ {1} -> { InitialFrame(m) : m \in ConcurrentBudgets }]
    /\ argument = NoValue
    /\ result = NoValue

ConcurrentNext ==
    \/ Next
    \/ \E e \in Executions : Switch(e)

ConcurrentSpec == ConcurrentInit /\ [][ConcurrentNext]_vars

----------------------------------------------------------------------------
(* The structured generation client: core/llm_client.py.  The provider call *)
(* (client.aio.models.generate_content) comes back with a response or       *)
(* raises; a response has candidates, a candidate has parts, and a part     *)
(* carries either a function call or text.                                  *)

FunctionCallPart(n, a) == [function_call |-> [name |-> n, args |-> a]]

TextPart(t) == [text |-> t]

Parts ==
    { FunctionCallPart(n, a) :
        n \in {"create_task_plan", "execute_action", "reflect_on_progress", "other_function"},
        a \in { [action_type |-> "reasoning", reasoning |-> <<"thinking">>],
                [progress_assessment |-> <<"assessed">>, task_complete |-> TRUE] } }
    \cup { FunctionCallPart("execute_action", NoValue) }
    \cup { TextPart(<<"free text">>), TextPart(<< >>) }

Response(parts) == [candidates |-> << [content |-> [parts |-> parts]] >>]

\* What generate_content can come back with.
ProviderOutcomes ==
    { Returns(Response(<<p>>)) : p \in Parts }
    \cup { Returns(Response(<<p, q>>)) : p \in Parts, q \in Parts }
    \cup { Returns(Response(<< >>)), Returns([candidates |-> << >>]), Raises(ErrorText) }

RECURSIVE TextOfParts(_)
TextOfParts(parts) ==
    IF parts = << >> THEN << >>
    ELSE (IF Has(parts[1], "text") THEN parts[1].text ELSE << >>) \o TextOfParts(Tail(parts))

\* response.text of the SDK: the text parts of the first candidate, None without any.
ResponseText(response) ==
    IF response.candidates = << >> THEN NoValue
    ELSE LET parts == response.candidates[1].content.parts
         IN  IF \E i \in 1 .. Len(parts) : Has(parts[i], "text")
             THEN TextOfParts(parts)
             ELSE NoValue

IndexError == <<"list index out of range">>

TypeError == <<"'NoneType' object is not iterable">>

\* Steps 4 and after of generate_with_tools_async: only the first part of the
\* first candidate is inspected; an exception of the inspection is logged and re-raised.
DecodeResponse(response) ==
    IF response.candidates = << >> THEN Raises(IndexError)
    ELSE IF response.candidates[1].content.parts = << >> THEN Raises(IndexError)
    ELSE LET response_part == response.candidates[1].content.parts[1]
         IN  IF Has(response_part, "function_call")
             THEN IF response_part.function_call.args = NoValue
                  THEN Raises(TypeError)
                  ELSE Returns(ToolCall(response_part.function_call.name,
                                        response_part.function_call.args))
             ELSE Returns(TextResult(ResponseText(response)))

\* A client that logs a provider fault and hands it back as a text result.
generate_with_tools_swallows(o) ==
    IF o.raised THEN Returns(TextResult(o.error)) ELSE DecodeResponse(o.value)

\* GeminiAIClient.generate_with_tools_async, given what the provider call came back with.
generate_with_tools_async(o) ==
    IF o.raised THEN Raises(o.error) ELSE DecodeResponse(o.value)

\* GeminiAIClient.generate_text_async, given what the provider call came back with.
generate_text_async(o) ==
    IF o.raised THEN Raises(o.error) ELSE Returns(ResponseText(o.value))

----------------------------------------------------------------------------
(* Personas: the catalog lookups of execute() and generate_agent_context.   *)
(* A persona is a dict with some of the fields role, persona, description   *)
(* and strengths (a list of strings), or {} or None.                        *)

EmptyDict == [k \in { } |-> TRUE]

\* A predicate that takes only None for "no persona".
FalsyOnlyNone(agent_persona) ==
    IF DOMAIN agent_persona = { } THEN FALSE ELSE agent_persona = NoValue

\* `not agent_persona`: None and the empty dict are falsy.
Falsy(agent_persona) ==
    IF DOMAIN agent_persona = { } THEN TRUE ELSE agent_persona = NoValue

\* sep.join(items) over texts.
RECURSIVE Join(_, _)
Join(items, sep) ==
    IF items = << >> THEN << >>
    ELSE IF Len(items) = 1 THEN items[1]
    ELSE items[1] \o sep \o Join(Tail(items), sep)

generate_agent_context(agent_persona) ==
    IF Falsy(agent_persona) THEN << >>
    ELSE LET role == Get(agent_persona, "role", <<"Assistant">>)
             persona == Get(agent_persona, "persona", <<"Helpful and knowledgeable">>)
             description == Get(agent_persona, "description", <<"Provides helpful responses">>)
             strengths == Join(Get(agent_persona, "strengths", << <<"Assistance">> >>), <<", ">>)
         IN  <<"\n    === AGENT CONTEXT ===\n    ", "ROLE: ">> \o role
             \o <<"\n    ", "CHARACTER: ">> \o persona
             \o <<"\n    ", "FUNCTION: ">> \o description
             \o <<"\n    ", "STRENGTHS: ">> \o strengths
             \o <<"\n    ==================\n    \n    ", "You are acting as the ">> \o role
             \o <<". Your personality is ">> \o persona
             \o <<"\n    ">>

\* personas.get(key, {}) over workflow_selection.personas.get("autonomous_agent", {}).
PersonaOf(catalog, key) ==
    Get(Get(catalog, "autonomous_agent", EmptyDict), key, EmptyDict)

TextFields == {"role", "persona", "description"}

FieldValue(f) ==
    IF f = "role" THEN <<"Task Planner">>
    ELSE IF f = "persona" THEN <<"Methodical and thorough">>
    ELSE <<"Breaks tasks into steps">>

StrengthLists == { << >>, << <<"Planning">> >>, << <<"Planning">>, <<"Analysis">> >> }

\* The persona records: every subset of the fields, {} among them, and None.
Personas ==
    { [f \in fs |-> FieldValue(f)] : fs \in SUBSET TextFields }
    \cup { [f \in fs \cup {"strengths"} |-> IF f = "strengths" THEN l ELSE FieldValue(f)] :
             fs \in SUBSET TextFields, l \in StrengthLists }
    \cup { NoValue }

AgentKeys == {"planner_agent", "actor_agent", "reflector_agent"}

FullPersona ==
    [role |-> <<"Task Planner">>, persona |-> <<"Methodical and thorough">>,
     description |-> <<"Breaks tasks into steps">>, strengths |-> << <<"Planning">> >>]

PartialPersona == [role |-> <<"Task Planner">>]

\* workflow_selection.personas: with or without the entry of this workflow,
\* and the entry with or without each of the three agents.
Catalogs ==
    { EmptyDict, [other_workflow |-> EmptyDict] }
    \cup { [autonomous_agent |-> agents] :
             agents \in UNION { [ks -> {FullPersona, PartialPersona}] : ks \in SUBSET AgentKeys } }

----------------------------------------------------------------------------
(* The tool handlers of the MCP server: mcp/combined_server.py.  A handler  *)
(* calls one service (the RAG system or its scraper), which comes back with *)
(* a value or raises.  A JSON value is a string, Str(t), None, or an object *)
(* json.dumps cannot encode; ctx is the request context, present or not,    *)
(* and its logging calls come back.                                         *)

Str(t) == [str |-> t]

Opaque == [object |-> TRUE]

\* str(v) of a value, as an f-string formats it.
StrOf(v) ==
    IF v = NoValue THEN <<"None">>
    ELSE IF Has(v, "str") THEN v.str
    ELSE <<"<object>">>

KeyOrder ==
    <<"status", "workspace_id", "url", "location", "temperature", "content", "error", "message">>

\* The keys of a dict, in the order of their insertion.
KeysOf(d) == SelectSeq(KeyOrder, LAMBDA k : k \in DOMAIN d)

Serializable(v) == v = NoValue \/ Has(v, "str")

NotSerializable == <<"Object of type bytes is not JSON serializable">>

NotSubscriptable == <<"'NoneType' object is not subscriptable">>

NotIterable == <<"argument of type 'NoneType' is not iterable">>

KeyErrorText(k) == <<"'", k, "'">>

DumpsValue(v) == IF v = NoValue THEN <<"null">> ELSE <<"\"">> \o v.str \o <<"\"">>

Member(d, k) == <<"\"", k, "\"", ": ">> \o DumpsValue(d[k])

\* json.dumps(d, indent=2) of None or of a dict of JSON values; it raises
\* TypeError on a value it cannot encode.
Dumps(d) ==
    IF d = NoValue THEN Returns(<<"null">>)
    ELSE IF \E k \in DOMAIN d : ~Serializable(d[k]) THEN Raises(NotSerializable)
    ELSE IF DOMAIN d = { } THEN Returns(<<"{}">>)
    ELSE Returns(<<"{\n  ">>
                 \o Join([i \in 1 .. Len(KeysOf(d)) |-> Member(d, KeysOf(d)[i])], <<",\n  ">>)
                 \o <<"\n}">>)

\* A handler whose except clause lets the exception go on to the caller.
ErrorReportRaises(e) == Raises(e)

\* except Exception as e: return json.dumps({"status": "error", "message": str(e)}, indent=2)
ErrorReport(e) == Dumps([status |-> Str(<<"error">>), message |-> Str(e)])

\* The end of a try block: json.dumps of the service's result is returned,
\* and its TypeError is an exception of the try block like any other.
ReturnDumps(d) ==
    IF Dumps(d).raised THEN ErrorReport(Dumps(d).error) ELSE Dumps(d)

scrape_url(o, ctx) ==
    IF o.raised THEN ErrorReport(o.error)
    ELSE IF o.value = NoValue THEN ErrorReport(NotSubscriptable)
    ELSE IF ~Has(o.value, "status") THEN ErrorReport(KeyErrorText("status"))
    ELSE ReturnDumps(o.value)

search_information(o, ctx) ==
    IF o.raised THEN ErrorReport(o.error)
    ELSE IF ~ctx THEN ReturnDumps(o.value)
    ELSE IF o.value = NoValue THEN ErrorReport(NotSubscriptable)
    ELSE IF ~Has(o.value, "status") THEN ErrorReport(KeyErrorText("status"))
    ELSE IF o.value.status = Str(<<"success">>) /\ ~Has(o.value, "result_count")
    THEN ErrorReport(KeyErrorText("result_count"))
    ELSE IF o.value.status # Str(<<"success">>) /\ ~Has(o.value, "message")
    THEN ErrorReport(KeyErrorText("message"))
    ELSE ReturnDumps(o.value)

create_workspace(o, ctx) ==
    IF o.raised THEN ErrorReport(o.error)
    ELSE ReturnDumps([status |-> Str(<<"success">>),
                      workspace_id |-> o.value,
                      message |-> Str(<<"Workspace created successfully with ID: ">>
                                      \o StrOf(o.value))])

\* except Exception as e: return json.dumps({"error": str(e)}, indent=2)
WeatherErrorReport(e) == Dumps([error |-> Str(e)])

get_weather(o, ctx) ==
    IF o.raised THEN WeatherErrorReport(o.error)
    ELSE IF o.value = NoValue THEN WeatherErrorReport(NotIterable)
    ELSE IF Dumps(o.value).raised THEN WeatherErrorReport(Dumps(o.value).error)
    ELSE Dumps(o.value)

\* What the services can come back with.
ServiceErrors == { <<"network not found">>, <<"permission denied">> }

StatusResults ==
    { [status |-> Str(<<"success">>), url |-> Str(<<"http://example.org">>)],
      [status |-> Str(<<"success">>), url |-> Str(<<"http://example.org">>),
       result_count |-> Str(<<"2">>)],
      [status |-> Str(<<"error">>), message |-> Str(<<"not found">>)],
      [status |-> Str(<<"error">>)],
      [message |-> Str(<<"no status">>)],
      [status |-> Str(<<"success">>), content |-> Opaque],
      [status |-> Str(<<"success">>), result_count |-> Str(<<"1">>), content |-> Opaque] }

WorkspaceIds == { Str(<<"ws-1">>), Opaque }

WeatherResults ==
    { [location |-> Str(<<"Oslo">>), temperature |-> Str(<<"7">>)],
      [error |-> Str(<<"unknown location">>)],
      [location |-> Str(<<"Oslo">>), content |-> Opaque],
      EmptyDict }

ServiceOutcomes(handler) ==
    { Raises(e) : e \in ServiceErrors } \cup { Returns(NoValue) }
    \cup { Returns(v) : v \in (IF handler = "create_workspace" THEN WorkspaceIds
                              ELSE IF handler = "get_weather" THEN WeatherResults
                              ELSE StatusResults) }

Handlers == {"scrape_url", "search_information", "create_workspace", "get_weather"}

----------------------------------------------------------------------------
(* The helper functions on their own: one call of one function, applied to  *)
(* an input drawn from its domain, while no execution is under way.         *)

execution ==
    <<pc, max_iterations, available_tools, iteration, final_response, agent_memory,
      intermediate_steps, action, observation, exception, calls, last_outcome,
      degraded_only, llm_client, running, suspended>>

Call(function, input) == [function |-> function, input |-> input]

ClientCalls ==
    { Call(f, o) : f \in {"generate_with_tools_async", "generate_text_async"},
                   o \in ProviderOutcomes }

ContextCalls ==
    { Call("generate_agent_context", p) : p \in Personas }
    \cup { Call("persona_lookup", [catalog |-> c, key |-> k]) : c \in Catalogs, k \in AgentKeys }

HandlerCalls ==
    UNION { { Call(h, [outcome |-> o, ctx |-> c]) : o \in ServiceOutcomes(h), c \in BOOLEAN } :
              h \in Handlers }

LibraryCalls == ClientCalls \cup ContextCalls \cup HandlerCalls

CallGenerateWithTools ==
    /\ result = NoValue
    /\ argument.function = "generate_with_tools_async"
    /\ result' = generate_with_tools_async(argument.input)
    /\ UNCHANGED <<execution, argument>>

CallGenerateText ==
    /\ result = NoValue
    /\ argument.function = "generate_text_async"
    /\ result' = generate_text_async(argument.input)
    /\ UNCHANGED <<execution, argument>>

CallGenerateAgentContext ==
    /\ result = NoValue
    /\ argument.function = "generate_agent_context"
    /\ result' = Returns(generate_agent_context(argument.input))
    /\ UNCHANGED <<execution, argument>>

\* The persona of one agent is looked up in the catalog and formatted, as at
\* the head of each phase of the loop.
CallPersonaLookup ==
    /\ result = NoValue
    /\ argument.function = "persona_lookup"
    /\ result' = Returns(generate_agent_context(
                             PersonaOf(argument.input.catalog, argument.input.key)))
    /\ UNCHANGED <<execution, argument>>

CallScrapeUrl ==
    /\ result = NoValue
    /\ argument.function = "scrape_url"
    /\ result' = scrape_url(argument.input.outcome, argument.input.ctx)
    /\ UNCHANGED <<execution, argument>>

CallSearchInformation ==
    /\ result = NoValue
    /\ argument.function = "search_information"
    /\ result' = search_information(argument.input.outcome, argument.input.ctx)
    /\ UNCHANGED <<execution, argument>>

CallCreateWorkspace ==
    /\ result = NoValue
    /\ argument.function = "create_workspace"
    /\ result' = create_workspace(argument.input.outcome, argument.input.ctx)
    /\ UNCHANGED <<execution, argument>>

CallGetWeather ==
    /\ result = NoValue
    /\ argument.function = "get_weather"
    /\ result' = get_weather(argument.input.outcome, argument.input.ctx)
    /\ UNCHANGED <<execution, argument>>

LibraryInit ==
    /\ pc = "start"
    /\ max_iterations = 0
    /\ available_tools \in Registries
    /\ iteration = 0
    /\ final_response = DefaultFinalResponse
    /\ agent_memory = [iterations |-> << >>, observations |-> << >>, task_complete |-> FALSE]
    /\ intermediate_steps = << >>
    /\ action = NoValue
    /\ observation = << >>
    /\ exception = "none"
    /\ calls = << >>
    /\ last_outcome = NoValue
    /\ degraded_only = TRUE
    /\ llm_client = NoValue
    /\ running = 1
    /\ suspended = [e \in { } |-> NoValue]
    /\ argument \in LibraryCalls
    /\ result = NoValue

LibraryNext ==
    \/ CallGenerateWithTools
    \/ CallGenerateText
    \/ CallGenerateAgentContext
    \/ CallPersonaLookup
    \/ CallScrapeUrl
    \/ CallSearchInformation
    \/ CallCreateWorkspace
    \/ CallGetWeather

LibrarySpec == LibraryInit /\ [][LibraryNext]_vars

----------------------------------------------------------------------------
(* The client accessor on its own: any sequence of calls of                 *)
(* get_llm_client(), made by the executions at line 88 of execute(), under  *)
(* any configuration at the time of each call.  The accessor has no await,  *)
(* so a call runs from its first line to its last without another           *)
(* execution in between.  calls is the history of these calls.              *)

MaxCalls == 3

\* The number of GeminiAIClient objects constructed so far.
Constructed ==
    Cardinality({ c \in 1 .. Len(calls) : calls[c].before = NoValue /\ ~calls[c].outcome.raised })

AccessorCall(e, key, before, r) ==
    [kind |-> "get_llm_client", caller |-> e, key |-> key, before |-> before,
     after |-> r.global, outcome |-> r.outcome]

GetClient(e, key) ==
    LET r == get_llm_client(llm_client, GeminiAIClient(key, Constructed + 1))
    IN  /\ Len(calls) < MaxCalls
        /\ llm_client' = r.global
        /\ calls' = Append(calls, AccessorCall(e, key, llm_client, r))
        /\ UNCHANGED <<pc, max_iterations, available_tools, iteration, final_response,
                       agent_memory, intermediate_steps, action, observation, exception,
                       last_outcome, degraded_only, scheduler, library>>

AccessorInit ==
    /\ pc = "start"
    /\ max_iterations = 0
    /\ available_tools \in Registries
    /\ iteration = 0
    /\ final_response = DefaultFinalResponse
    /\ agent_memory = [iterations |-> << >>, observations |-> << >>, task_complete |-> FALSE]
    /\ intermediate_steps = << >>
    /\ action = NoValue
    /\ observation = << >>
    /\ exception = "none"
    /\ calls = << >>
    /\ last_outcome = NoValue
    /\ degraded_only = TRUE
    /\ llm_client = NoValue
    /\ running = 1
    /\ suspended = [e \in { } |-> NoValue]
    /\ argument = NoValue
    /\ result = NoValue

AccessorNext == \E e \in Executions, key \in ApiKeys : GetClient(e, key)

AccessorSpec == AccessorInit /\ [][AccessorNext]_vars

----------------------------------------------------------------------------
(* Vocabulary of the properties *)

Iterations == agent_memory.iterations

Complete == agent_memory.task_complete

Returned == pc = "done"

CallsTo(fn) == { c \in 1 .. Len(calls) : calls[c].function = fn }

LLMCalls == { c \in 1 .. Len(calls) : calls[c].kind # "tool" }

SummaryCalls == { c \in 1 .. Len(calls) : calls[c].kind = "generate_text_async" }

EntriesOf(role) ==
    { e \in 1 .. Len(intermediate_steps) : intermediate_steps[e].agent_role = role }

Roles == [e \in 1 .. Len(intermediate_steps) |-> intermediate_steps[e].agent_role]

IsText(v) == DOMAIN v = 1 .. Cardinality(DOMAIN v)

Max(a, b) == IF a >= b THEN a ELSE b

\* Iteration k recorded a final_result action.
EndedByFinalResult(k) ==
    /\ Has(Iterations[k], "action")
    /\ Iterations[k].action.action_type = "final_result"

\* The response that made execute() raise lacks a field the schema requires.
SchemaViolated ==
    \/ /\ exception = "KeyError: 'task_understanding'"
       /\ Iterations # << >>
       /\ ~Has(Last(Iterations).plan, "task_understanding")
    \/ /\ exception = "KeyError: 'action_type'"
       /\ ~Has(action, "action_type")

----------------------------------------------------------------------------
(* C1: whatever the external calls come back with -- a tool_call carrying   *)
(* the required fields, a text result, an exception, a tool value or a tool *)
(* fault -- execute() does not raise: it raises only on a tool_call whose   *)
(* arguments lack a required field, and what it returns is a string and a   *)
(* non-empty trace.                                                         *)

----------------------------------------------------------------------------
(* C3: an iteration whose action is final_result sets task_complete and is  *)
(* the last one: the loop is left in that iteration, no reflection call is  *)
(* issued for it, no Progress Reflector entry is appended for it, and no    *)
(* planning call follows it.                                                *)

C3_FinalResultEndsLoop ==
    \A k \in 1 .. Len(Iterations) :
        EndedByFinalResult(k) =>
            /\ Complete
            /\ Returned
            /\ k = iteration /\ k = Len(Iterations)
            /\ ~Has(Iterations[k], "reflection")
            /\ \A c \in CallsTo("reflect_on_progress") : calls[c].iteration # k
            /\ Last(calls).function = "execute_action" /\ Last(calls).iteration = k
            /\ LET n == Len(intermediate_steps)
               IN  /\ n >= 3
                   /\ Roles[n - 2] = "Task Planner"
                   /\ Roles[n - 1] = "Action Executor"
                   /\ Roles[n] = "Task Summarizer"

\* The second iteration ends by final_result, after a full first iteration.
C3_Witness ==
    /\ Returned
    /\ Len(Iterations) = 2
    /\ EndedByFinalResult(2)

----------------------------------------------------------------------------
(* C2: for max_iterations >= 1 the iteration counter never exceeds          *)
(* max_iterations, at most max_iterations planning calls and at most one    *)
(* summarization call are issued, and the execution ends by returning:      *)
(* whenever it has not returned, a further step is possible.                *)

C2_ReturnsWithinBound ==
    max_iterations >= 1 =>
        /\ iteration <= max_iterations
        /\ Cardinality(CallsTo("create_task_plan")) <= max_iterations
        /\ Cardinality(SummaryCalls) <= 1
        /\ (Returned \/ ENABLED Next)

\* The part of C2 that the code keeps: the bounds, and an end by return or by raise.
C2_EndsWithinBound ==
    max_iterations >= 1 =>
        /\ iteration <= max_iterations
        /\ Cardinality(CallsTo("create_task_plan")) <= max_iterations
        /\ Cardinality(SummaryCalls) <= 1
        /\ (Returned \/ pc = "raised" \/ ENABLED Next)

----------------------------------------------------------------------------
(* C4: a step in which the reflection call returns a reflect_on_progress    *)
(* result with task_complete = true sets memory's task_complete and does    *)
(* not go on to a planning call.                                            *)

ReflectionSaysComplete(o) ==
    /\ ~o.raised
    /\ Matches(o.value, "reflect_on_progress")
    /\ o.value.arguments.task_complete

C4_ReflectionCompletionStopsLoop ==
    [][ (pc = "reflecting" /\ ReflectionSaysComplete(last_outcome'))
            => (agent_memory'.task_complete /\ pc' # "planning") ]_vars

----------------------------------------------------------------------------
(* C5: the trace holds a Task Summarizer entry exactly when execute() has   *)
(* returned; it is then the last entry and the only one of that role, its   *)
(* metadata.iterations is the number of iterations the loop executed and    *)
(* its metadata.task_complete is the final value of memory's task_complete. *)

C5_TrailingSummarizer ==
    /\ ~Returned => EntriesOf("Task Summarizer") = { }
    /\ Returned =>
          LET n == Len(intermediate_steps)
          IN  /\ n >= 1
              /\ EntriesOf("Task Summarizer") = {n}
              /\ intermediate_steps[n].metadata.iterations = iteration
              /\ iteration = Len(Iterations)
              /\ iteration = Cardinality(CallsTo("create_task_plan"))
              /\ intermediate_steps[n].metadata.task_complete = Complete

\* Returned by a final_result in the first of two allowed iterations.
C5_Witness ==
    /\ Returned
    /\ Complete
    /\ iteration = 1
    /\ max_iterations = 2

----------------------------------------------------------------------------
(* C6 as stated: when every structured call came back mismatched or raised, *)
(* the execution returns within max_iterations + 1 LLM calls and its        *)
(* final_response is not empty.                                             *)

C6_WithinMaxPlusOneCalls ==
    (Returned /\ degraded_only /\ max_iterations >= 1) =>
        /\ Cardinality(LLMCalls) <= max_iterations + 1
        /\ final_response # << >>

(* C6 as amended: when every structured call came back mismatched or        *)
(* raised, the loop runs exactly max_iterations degraded cycles of three    *)
(* structured calls each, then one summarization call (3 * max_iterations   *)
(* + 1 LLM calls, no tool call), and returns the summarization text, or the *)
(* placeholder with an error note when that call raised; final_response is  *)
(* empty only when the summarization call returned the empty text.          *)

C6_DegradedRunCompletes ==
    (Returned /\ degraded_only) =>
        /\ ~Complete
        /\ iteration = Max(max_iterations, 0)
        /\ \A fn \in {"create_task_plan", "execute_action", "reflect_on_progress"} :
              Cardinality(CallsTo(fn)) = iteration
        /\ Cardinality(SummaryCalls) = 1
        /\ Cardinality(LLMCalls) = 3 * iteration + 1
        /\ Len(calls) = Cardinality(LLMCalls)
        /\ IF last_outcome.raised
           THEN /\ final_response = DefaultFinalResponse
                                    \o <<" Error generating summary: ">> \o last_outcome.error
                /\ final_response # << >>
           ELSE final_response = last_outcome.value

\* Two degraded cycles, then the summarization call raised as well.
C6_Witness ==
    /\ Returned
    /\ degraded_only
    /\ max_iterations = 2
    /\ last_outcome.raised

----------------------------------------------------------------------------
(* C7: when an iteration k <= max_iterations ends by final_result{result:   *)
(* r}, execute() returns final_response = r with task_complete true, and    *)
(* no summarization call is issued.                                         *)

C7_FinalResultIsResponse ==
    \A k \in 1 .. Len(Iterations) :
        (EndedByFinalResult(k) /\ Has(Iterations[k].action, "result")) =>
            /\ k <= max_iterations
            /\ Returned
            /\ Complete
            /\ final_response = Iterations[k].action.result
            /\ SummaryCalls = { }
            /\ Last(intermediate_steps).metadata.task_complete

\* final_result{result: "Done"} in the second iteration.
C7_Witness ==
    /\ Returned
    /\ iteration = 2
    /\ EndedByFinalResult(2)
    /\ final_response = <<"Done">>

----------------------------------------------------------------------------
(* C8: no summarization call is issued inside the loop; when the loop exits *)
(* with task_complete false, max_iterations is exhausted, exactly one       *)
(* summarization call is issued, after the last iteration, and when it      *)
(* returns text t the returned final_response is t.                         *)

C8_ExhaustionSummarizes ==
    /\ pc \notin {"summarizing", "done"} => SummaryCalls = { }
    /\ (pc \in {"summarizing", "done"} /\ ~Complete) =>
          /\ SummaryCalls = {Len(calls)}
          /\ Last(calls).iteration = iteration
          /\ iteration = Max(max_iterations, 0)
          /\ Len(Iterations) = iteration
    /\ (Returned /\ ~Complete /\ ~last_outcome.raised) =>
          final_response = last_outcome.value

\* Two iterations without completion, then the summary text is returned.
C8_Witness ==
    /\ Returned
    /\ ~Complete
    /\ iteration = 2
    /\ final_response = <<"summary">>

----------------------------------------------------------------------------
(* C9: the returned trace is, for every iteration in order, Task Planner,   *)
(* Action Executor, Progress Reflector -- or Task Planner, Action Executor  *)
(* for the iteration ended by final_result -- followed by one Task          *)
(* Summarizer entry.                                                        *)

RECURSIVE ExpectedRoles(_)
ExpectedRoles(k) ==
    IF k = 0 THEN << >>
    ELSE ExpectedRoles(k - 1) \o
         (IF EndedByFinalResult(k)
          THEN <<"Task Planner", "Action Executor">>
          ELSE <<"Task Planner", "Action Executor", "Progress Reflector">>)

C9_TraceShape ==
    Returned =>
        LET expected == ExpectedRoles(Len(Iterations)) \o <<"Task Summarizer">>
        IN  /\ Len(intermediate_steps) = Len(expected)
            /\ \A e \in 1 .. Len(expected) : Roles[e] = expected[e]

----------------------------------------------------------------------------
(* C10: task_complete starts false and is monotonic: once it is true no     *)
(* step writes memory again, so it is never reset; it is set by at most one *)
(* source (a final_result action or a stored reflection), and it is true    *)
(* only when one has set it.                                                *)

CompletionSources ==
    Cardinality({ k \in 1 .. Len(Iterations) : EndedByFinalResult(k) })
    + Cardinality({ k \in 1 .. Len(Iterations) :
                      /\ Has(Iterations[k], "reflection")
                      /\ Iterations[k].reflection.task_complete })

C10_TaskCompleteMonotonic ==
    [][ /\ pc = "start" => ~Complete
        /\ Complete => agent_memory' = agent_memory
        /\ CompletionSources' <= 1
        /\ Complete' => CompletionSources' = 1 ]_vars

\* Completed in the second iteration, after a reflection stored task_complete = false.
C10_Witness ==
    /\ Returned
    /\ Complete
    /\ Len(Iterations) = 2
    /\ Has(Iterations[1], "reflection")

----------------------------------------------------------------------------
(* C11: the iteration list is append-only and gains exactly one record per  *)
(* loop pass: it has as many records as passes have reached their planning  *)
(* result, a step adds at most one record at the end and never removes,     *)
(* reorders or rewrites a field of an existing record, and every record of  *)
(* a pass that reached its end holds a plan, an action and an observation.  *)

\* The passes that have run to their end (to the break or back to the loop test).
FinishedPasses ==
    IF pc \in {"start", "planning", "summarizing", "done"} THEN Len(Iterations)
    ELSE IF pc = "raised" \/ Len(Iterations) = 0 THEN 0
    ELSE Len(Iterations) - 1

\* Record r keeps every field of record q.
KeepsFields(q, r) == \A f \in DOMAIN q : Has(r, f) /\ r[f] = q[f]

C11_OneRecordPerPass ==
    [][ /\ Len(Iterations') \in {Len(Iterations), Len(Iterations) + 1}
        /\ \A k \in 1 .. Len(Iterations) : KeepsFields(Iterations[k], Iterations'[k])
        /\ Len(Iterations') = (IF pc' = "planning" THEN iteration' - 1 ELSE iteration')
        /\ \A k \in 1 .. FinishedPasses' :
              {"plan", "action", "observation"} \subseteq DOMAIN Iterations'[k] ]_vars

\* Two passes have run to their end, the first one with a stored reflection.
C11_Witness ==
    /\ Returned
    /\ Len(Iterations) = 2
    /\ FinishedPasses = 2
    /\ DOMAIN Iterations[1] = {"plan", "action", "observation", "reflection"}
    /\ DOMAIN Iterations[2] = {"plan", "action", "observation"}

----------------------------------------------------------------------------
(* C12: a use_tool action whose tool_name is the name of a registry entry   *)
(* with a handler invokes that handler exactly once in its iteration, with  *)
(* the supplied tool_parameters; when the handler returns v the observation *)
(* is v unchanged, in the iteration record, in the observation list and in  *)
(* the Action Executor entry, whose content names the tool and holds v.     *)

ToolCallsOf(k) == { c \in 1 .. Len(calls) : calls[c].kind = "tool" /\ calls[c].iteration = k }

\* Text t contains the chunks of text u, in order and adjacent.
Contains(t, u) ==
    \E i \in 0 .. (Len(t) - Len(u)) : \A j \in 1 .. Len(u) : t[i + j] = u[j]

\* The handler awaited in this iteration has just come back.
HandlerCameBack ==
    /\ pc \in {"reflecting", "summarizing", "done"}
    /\ Len(calls) >= 2
    /\ calls[Len(calls) - 1].kind = "tool"
    /\ calls[Len(calls) - 1].iteration = iteration
    /\ Last(calls).kind # "generate_text_async"

C12_HandlerResultIsObservation ==
    /\ \A k \in 1 .. Len(Iterations) :
          LET a == IF Has(Iterations[k], "action") THEN Iterations[k].action
                   ELSE IF k = iteration /\ pc = "tool" THEN action ELSE NoValue
              found == FindTool(available_tools, Get(a, "tool_name", << >>))
          IN  (Get(a, "action_type", "") = "use_tool" /\ found # 0) =>
                  /\ Cardinality(ToolCallsOf(k)) = 1
                  /\ \A c \in ToolCallsOf(k) :
                        /\ calls[c].function = available_tools[found].function
                        /\ available_tools[found].name = a.tool_name
                        /\ calls[c].context = a.tool_parameters
    /\ (HandlerCameBack /\ ~last_outcome.raised) =>
          LET v == last_outcome.value
              entry == Last(intermediate_steps)
          IN  /\ observation = v
              /\ Iterations[iteration].observation = v
              /\ Last(agent_memory.observations) = v
              /\ entry.agent_role = "Action Executor"
              /\ entry.metadata.observation = v
              /\ Contains(entry.content, action.tool_name)
              /\ Contains(entry.content, v)

\* echo(text = "hi") returned "hi" and the iteration went on to its reflection.
C12_Witness ==
    /\ HandlerCameBack
    /\ pc = "reflecting"
    /\ ~last_outcome.raised
    /\ action.tool_name = <<"echo">>
    /\ calls[Len(calls) - 1].function = "h1"
    /\ observation = <<"hi">>

----------------------------------------------------------------------------
(* C13: a use_tool action naming a tool absent from the registry invokes no *)
(* handler; its observation contains the text "not found", task_complete    *)
(* stays false, and the same iteration issues its reflection call.          *)

Registered(tool_name) == \E i \in 1 .. Len(available_tools) : available_tools[i].name = tool_name

NotFoundText == <<"' not found or not executable.">>

C13_AbsentToolIsNotFatal ==
    \A k \in 1 .. Len(Iterations) :
        (/\ Has(Iterations[k], "action")
         /\ Iterations[k].action.action_type = "use_tool"
         /\ ~Registered(Get(Iterations[k].action, "tool_name", << >>))) =>
            /\ ToolCallsOf(k) = { }
            /\ Contains(Iterations[k].observation, NotFoundText)
            /\ agent_memory.observations[k] = Iterations[k].observation
            /\ \E c \in CallsTo("reflect_on_progress") : calls[c].iteration = k
            /\ k = iteration => (pc # "raised" /\ (pc = "reflecting" => ~Complete))

\* The action named "ECHO", which no registry entry carries, and reflection is awaited.
C13_Witness ==
    /\ pc = "reflecting"
    /\ action.action_type = "use_tool"
    /\ action.tool_name = <<"ECHO">>
    /\ observation = ToolNotFound(<<"ECHO">>)
    /\ ~Complete

----------------------------------------------------------------------------
(* C14: when the matched handler raises e, the exception does not leave     *)
(* execute(), the iteration goes on to its reflection call, and the         *)
(* observation recorded for the iteration contains the message of e.        *)

C14_HandlerErrorIsObservation ==
    (HandlerCameBack /\ last_outcome.raised) =>
        /\ pc = "reflecting"
        /\ Contains(observation, last_outcome.error)
        /\ Contains(Iterations[iteration].observation, last_outcome.error)
        /\ Contains(Last(agent_memory.observations), last_outcome.error)
        /\ Contains(Last(intermediate_steps).metadata.observation, last_outcome.error)

\* The part of C14 that the code keeps: the fault is caught and reflection follows.
C14_HandlerErrorIsCaught ==
    (HandlerCameBack /\ last_outcome.raised) =>
        /\ pc = "reflecting"
        /\ ~Complete
        /\ observation = ToolNotFound(action.tool_name)

----------------------------------------------------------------------------
(* C15: executions interleaved at their awaits share no mutable state.  A   *)
(* step of the running execution changes no suspended frame; a switch       *)
(* stores the running frame unchanged and resumes the other execution with  *)
(* exactly the locals it was suspended with, so every frame evolves as if   *)
(* it ran alone; the tool registry is never changed and the client          *)
(* singleton, once created, is never replaced.                              *)

C15_ExecutionsAreIsolated ==
    [][ /\ available_tools' = available_tools
        /\ llm_client # NoValue => llm_client' = llm_client
        /\ IF running' = running
           THEN suspended' = suspended
           ELSE /\ Frame' = suspended[running']
                /\ suspended'[running] = Frame
                /\ \A x \in DOMAIN suspended \ {running'} : suspended'[x] = suspended[x] ]_vars

\* Both executions are past their planning and wait at different awaits,
\* each with one record of its own in its memory.
C15_Witness ==
    /\ running = 2
    /\ pc = "reflecting"
    /\ Len(Iterations) = 1
    /\ suspended[1].pc = "tool"
    /\ Len(suspended[1].agent_memory.iterations) = 1
    /\ suspended[1].agent_memory.iterations[1].plan # Iterations[1].plan
    /\ llm_client = Instance(1)

----------------------------------------------------------------------------
(* C16: once the reflection call of an iteration has come back -- with a    *)
(* matching result, a mismatched one or an exception -- the iteration       *)
(* record holds a reflection, memory's task_complete is the reflection's,   *)
(* and the trace holds one Progress Reflector entry per reflection call     *)
(* that came back.                                                          *)

\* The reflection calls that have come back.
ReflectionsBack ==
    { c \in CallsTo("reflect_on_progress") : ~(pc = "reflecting" /\ c = Len(calls)) }

C16_ReflectionAlwaysStored ==
    /\ Cardinality(EntriesOf("Progress Reflector")) = Cardinality(ReflectionsBack)
    /\ \A c \in ReflectionsBack :
          /\ Has(Iterations[calls[c].iteration], "reflection")
          /\ Iterations[calls[c].iteration].reflection.task_complete => Complete

\* The part of C16 that the code keeps: what it does when the call raised.
C16_StoredWhenRaised ==
    /\ Cardinality(EntriesOf("Progress Reflector"))
          = Cardinality({ k \in 1 .. Len(Iterations) : Has(Iterations[k], "reflection") })
    /\ Cardinality(EntriesOf("Progress Reflector")) <= Cardinality(ReflectionsBack)
    /\ \A k \in 1 .. Len(Iterations) :
          Has(Iterations[k], "reflection") =>
              Iterations[k].reflection = ErrorReflection(ErrorText)

----------------------------------------------------------------------------
(* C17 as stated: whenever the planning call comes back mismatched or       *)
(* raises, the plan of the iteration is the fixed fallback plan             *)
(* (task_understanding "Fallback plan", no steps), a Task Planner entry is  *)
(* appended and the acting call follows.                                    *)

\* The planning call of this iteration has just come back.
PlanningCameBack ==
    /\ pc = "acting"
    /\ Last(calls).function = "execute_action"
    /\ Last(calls).iteration = iteration

PlanningFailed == Degraded(last_outcome, "create_task_plan")

C17_FallbackPlanOnAnyFailure ==
    (PlanningCameBack /\ PlanningFailed) =>
        /\ Last(Iterations).plan.task_understanding = <<"Fallback plan">>
        /\ Last(Iterations).plan.plan_steps = << >>
        /\ Last(intermediate_steps).agent_role = "Task Planner"

(* C17 as amended: a mismatched planning result gives the fixed fallback    *)
(* plan; an exception e gives the error plan (task_understanding "Error: "  *)
(* followed by e, no steps, expected_outcome "Error occurred.").  In both   *)
(* cases the plan is stored, a Task Planner entry with it is appended and   *)
(* the acting call of the same iteration follows; execute() does not raise. *)

C17_DegradedPlanContinues ==
    /\ (pc = "raised" /\ Last(calls).function = "create_task_plan") => ~PlanningFailed
    /\ (PlanningCameBack /\ PlanningFailed) =>
          LET plan == Last(Iterations).plan
              entry == Last(intermediate_steps)
          IN  /\ Len(Iterations) = iteration
              /\ plan.plan_steps = << >>
              /\ IF last_outcome.raised
                 THEN /\ plan.task_understanding = <<"Error: ">> \o last_outcome.error
                      /\ plan.expected_outcome = <<"Error occurred.">>
                 ELSE /\ plan.task_understanding = <<"Fallback plan">>
                      /\ plan.expected_outcome = <<"Best effort.">>
              /\ entry.agent_role = "Task Planner"
              /\ entry.metadata = plan
              /\ entry.content = <<"Plan created: ">> \o plan.task_understanding

\* The planning call of the second iteration raised; its acting call is awaited.
C17_Witness ==
    /\ PlanningCameBack
    /\ iteration = 2
    /\ last_outcome.raised
    /\ Last(intermediate_steps).agent_role = "Task Planner"

----------------------------------------------------------------------------
(* C18: whenever the acting call comes back mismatched or raises, the       *)
(* action of the iteration is a reasoning action with an explanatory text;  *)
(* no handler is invoked, task_complete is not set, the observation echoes  *)
(* the reasoning, an Action Executor entry is appended and the reflection   *)
(* call of the same iteration follows.                                      *)

\* The acting call of this iteration has just come back and no handler was awaited.
ActingCameBack ==
    /\ pc = "reflecting"
    /\ Len(calls) >= 2
    /\ calls[Len(calls) - 1].function = "execute_action"

ActingFailed == Degraded(last_outcome, "execute_action")

C18_DegradedActionIsReasoning ==
    /\ (calls # << >> /\ Last(calls).function = "execute_action" /\ pc # "acting")
          => ~ActingFailed
    /\ (pc = "tool" /\ Len(calls) >= 2 /\ calls[Len(calls) - 1].function = "execute_action")
          => ~ActingFailed
    /\ (ActingCameBack /\ ActingFailed) =>
          LET entry == Last(intermediate_steps)
          IN  /\ action.action_type = "reasoning"
              /\ action.reasoning = (IF last_outcome.raised
                                     THEN <<"Error occurred: ">> \o last_outcome.error
                                     ELSE <<"Unable to determine next action.">>)
              /\ ToolCallsOf(iteration) = { }
              /\ ~Complete
              /\ observation = <<"Reasoning: ">> \o action.reasoning
              /\ Iterations[iteration].action = action
              /\ Iterations[iteration].observation = observation
              /\ Last(agent_memory.observations) = observation
              /\ entry.agent_role = "Action Executor"
              /\ entry.metadata = [action |-> action, observation |-> observation]
              /\ Last(calls).function = "reflect_on_progress"
              /\ Last(calls).iteration = iteration

\* The acting call returned free text; the reflection call is awaited.
C18_Witness ==
    /\ ActingCameBack
    /\ ~last_outcome.raised
    /\ last_outcome.value.type = "text"
    /\ action.reasoning = <<"Unable to determine next action.">>

----------------------------------------------------------------------------
(* C19 as stated: whenever the reflection call comes back mismatched or     *)
(* raises, the reflection of the iteration is {progress_assessment:         *)
(* "Unable to assess progress.", task_complete: false}, task_complete stays *)
(* false and the next planning call follows if iterations remain.           *)

\* The reflection call of this iteration has just come back.
ReflectionCameBack ==
    /\ pc \in {"planning", "summarizing"}
    /\ Len(calls) >= 2
    /\ calls[Len(calls) - 1].function = "reflect_on_progress"

\* The iteration whose reflection call has just come back.
ReflectedIteration == calls[Len(calls) - 1].iteration

ReflectionFailed == Degraded(last_outcome, "reflect_on_progress")

C19_FallbackReflectionOnAnyFailure ==
    (ReflectionCameBack /\ ReflectionFailed /\ Has(Iterations[ReflectedIteration], "reflection")) =>
        /\ Iterations[ReflectedIteration].reflection =
              [progress_assessment |-> <<"Unable to assess progress.">>, task_complete |-> FALSE]
        /\ ~Complete
        /\ ReflectedIteration < max_iterations => pc = "planning"

(* C19 as amended: a mismatched reflection result is replaced by            *)
(* {"Unable to assess progress.", false}, an exception e by {"Error         *)
(* occurred: " followed by e, false}, and the latter is what the iteration  *)
(* record and the Progress Reflector entry hold.  Neither sets              *)
(* task_complete: the loop is not ended by it, the next planning call       *)
(* follows if iterations remain and the summarization call otherwise.       *)

C19_DegradedReflectionContinues ==
    /\ (calls # << >> /\ Last(calls).function = "reflect_on_progress" /\ pc # "reflecting")
          => ~ReflectionFailed
    /\ (ReflectionCameBack /\ ReflectionFailed) =>
          LET k == ReflectedIteration
          IN  /\ ~Complete
              /\ pc = (IF k < max_iterations THEN "planning" ELSE "summarizing")
              /\ iteration = (IF k < max_iterations THEN k + 1 ELSE k)
              /\ last_outcome.raised =>
                    /\ Has(Iterations[k], "reflection")
                    /\ Iterations[k].reflection =
                          [progress_assessment |-> <<"Error occurred: ">> \o last_outcome.error,
                           task_complete |-> FALSE]
                    /\ Last(intermediate_steps).agent_role = "Progress Reflector"
                    /\ Last(intermediate_steps).metadata = Iterations[k].reflection
              /\ (~last_outcome.raised /\ Has(Iterations[k], "reflection")) =>
                    Iterations[k].reflection = FallbackReflection

\* The reflection call of the first iteration raised; the second planning call is awaited.
C19_Witness ==
    /\ ReflectionCameBack
    /\ last_outcome.raised
    /\ pc = "planning"
    /\ iteration = 2
    /\ Has(Iterations[1], "reflection")

----------------------------------------------------------------------------
(* C20: when the summarization call raises, execute() does not raise: it    *)
(* returns the placeholder set before the loop followed by an error note    *)
(* (the placeholder is kept as a prefix), and the Task Summarizer entry is  *)
(* appended.                                                                *)

C20_SummaryFaultKeepsPlaceholder ==
    /\ (calls # << >> /\ Last(calls).kind = "generate_text_async" /\ pc # "summarizing")
          => Returned
    /\ (Returned /\ SummaryCalls # { } /\ last_outcome.raised) =>
          /\ final_response = <<"Task processed, but no specific result was generated.">>
                              \o <<" Error generating summary: ">> \o last_outcome.error
          /\ Last(intermediate_steps).agent_role = "Task Summarizer"
          /\ ~Last(intermediate_steps).metadata.task_complete

\* One full iteration without completion, then the summarization call raised.
C20_Witness ==
    /\ Returned
    /\ SummaryCalls # { }
    /\ last_outcome.raised
    /\ max_iterations = 1
    /\ Len(Iterations) = 1

----------------------------------------------------------------------------
(* C21: within every iteration the calls are issued in the order planning,  *)
(* acting, (tool handler,) reflection, and no reflection call is issued for *)
(* an iteration whose action is final_result; planning is entered exactly   *)
(* once per iteration and at most max_iterations times; an acting call      *)
(* directly follows the planning call of its iteration, and a reflection    *)
(* call follows the acting call of its iteration and the dispatch.          *)

PlanningCallsOf(k) == { c \in CallsTo("create_task_plan") : calls[c].iteration = k }

C21_PhaseOrder ==
    /\ iteration <= Max(max_iterations, 0)
    /\ Cardinality(CallsTo("create_task_plan")) = iteration
    /\ \A k \in 1 .. iteration : Cardinality(PlanningCallsOf(k)) = 1
    /\ \A k \in 1 .. Len(Iterations) :
          EndedByFinalResult(k) =>
              \A c \in CallsTo("reflect_on_progress") : calls[c].iteration # k
    /\ \A c \in 1 .. Len(calls) :
          LET this == calls[c]
              before == calls[c - 1]
          IN  /\ this.function = "create_task_plan" =>
                    \/ c = 1 /\ this.iteration = 1
                    \/ /\ c > 1
                       /\ before.function = "reflect_on_progress"
                       /\ before.iteration = this.iteration - 1
              /\ this.function = "execute_action" =>
                    /\ c > 1
                    /\ before.function = "create_task_plan"
                    /\ before.iteration = this.iteration
              /\ this.kind = "tool" =>
                    /\ c > 1
                    /\ before.function = "execute_action"
                    /\ before.iteration = this.iteration
              /\ this.function = "reflect_on_progress" =>
                    /\ c > 1
                    /\ before.function = "execute_action" \/ before.kind = "tool"
                    /\ before.iteration = this.iteration
                    /\ Has(Iterations[this.iteration], "observation")

\* Plan, act, tool, reflect in the first iteration; plan, act (final_result) in the second.
C21_Witness ==
    /\ Returned
    /\ Len(calls) = 6
    /\ calls[3].kind = "tool"
    /\ calls[4].function = "reflect_on_progress"
    /\ calls[6].function = "execute_action"
    /\ EndedByFinalResult(2)

----------------------------------------------------------------------------
(* C22: at most one external call is outstanding.  A step issues at most    *)
(* one call, and only the first step or the step that receives what the     *)
(* outstanding call came back with issues one; while execute() waits, the   *)
(* call it waits for is the last one issued; the planning call of iteration *)
(* k + 1 is issued only when the record of iteration k holds its action and *)
(* observation.                                                             *)

Awaiting == pc \in {"planning", "acting", "tool", "reflecting", "summarizing"}

\* The call that the position pc waits for.
AwaitedFunction ==
    CASE pc = "planning" -> {"create_task_plan"}
      [] pc = "acting" -> {"execute_action"}
      [] pc = "tool" -> {"h1", "h2", "h3"}
      [] pc = "reflecting" -> {"reflect_on_progress"}
      [] pc = "summarizing" -> {""}
      [] OTHER -> { }

C22_OneOutstandingCall ==
    [][ /\ Len(calls') \in {Len(calls), Len(calls) + 1}
        /\ SubSeq(calls', 1, Len(calls)) = calls
        /\ Len(calls') = Len(calls) + 1 =>
              /\ IF calls = << >> THEN pc = "start"
                 ELSE Awaiting /\ Has(last_outcome', "raised")
              /\ Awaiting'
        /\ Awaiting' =>
              /\ calls' # << >>
              /\ Last(calls').function \in AwaitedFunction'
              /\ Last(calls').iteration = iteration'
              /\ pc' # "planning" \/ iteration' = 1
                    \/ {"action", "observation"} \subseteq DOMAIN Iterations'[iteration' - 1]
        /\ (Awaiting /\ pc' # pc) => Has(last_outcome', "raised") ]_vars

\* The handler of the second iteration is awaited: five calls have come back.
C22_Witness ==
    /\ pc = "tool"
    /\ iteration = 2
    /\ Len(calls) = 6
    /\ Last(calls).kind = "tool"

----------------------------------------------------------------------------
(* C23: tool lookup is an exact, case-sensitive match on the name, and of   *)
(* several registry entries with the same name only the first one in        *)
(* registry order is used: every handler invoked is the handler of the      *)
(* first entry that carries the action's tool_name.                         *)

\* The index of the first registry entry that carries the name, 0 if none does.
FirstNamed(tool_name) ==
    IF Registered(tool_name)
    THEN CHOOSE i \in 1 .. Len(available_tools) :
            /\ available_tools[i].name = tool_name
            /\ \A j \in 1 .. (i - 1) : available_tools[j].name # tool_name
    ELSE 0

\* The action whose dispatch issued the handler call c.
ActionOfCall(c) ==
    IF Has(Iterations[calls[c].iteration], "action")
    THEN Iterations[calls[c].iteration].action
    ELSE action

C23_FirstNamedEntryOnly ==
    \A c \in 1 .. Len(calls) :
        calls[c].kind = "tool" =>
            /\ Registered(ActionOfCall(c).tool_name)
            /\ calls[c].function = available_tools[FirstNamed(ActionOfCall(c).tool_name)].function

\* The part of C23 that the code keeps: the match is exact, and the entry used is
\* the first one that carries the name and a handler.
C23_FirstEntryWithHandler ==
    \A c \in 1 .. Len(calls) :
        calls[c].kind = "tool" =>
            LET found == FindTool(available_tools, ActionOfCall(c).tool_name)
            IN  /\ found # 0
                /\ available_tools[found].name = ActionOfCall(c).tool_name
                /\ calls[c].function = available_tools[found].function
                /\ calls[c].function # "h2"

----------------------------------------------------------------------------
(* C24: a reasoning action and an intermediate_result action invoke no      *)
(* handler and do not complete the task: task_complete stays false,         *)
(* final_response keeps the placeholder it had, the observation echoes the  *)
(* reasoning or result text, and the reflection call of the iteration is    *)
(* issued.                                                                  *)

C24_ReasoningHasNoEffect ==
    \A k \in 1 .. Len(Iterations) :
        (/\ Has(Iterations[k], "action")
         /\ Iterations[k].action.action_type \in {"reasoning", "intermediate_result"}) =>
            LET a == Iterations[k].action
            IN  /\ ToolCallsOf(k) = { }
                /\ \E c \in CallsTo("reflect_on_progress") : calls[c].iteration = k
                /\ Iterations[k].observation =
                      (IF a.action_type = "reasoning"
                       THEN <<"Reasoning: ">> \o Get(a, "reasoning", <<"No reasoning provided.">>)
                       ELSE <<"Result: ">> \o Get(a, "result", <<"No result provided.">>))
                /\ agent_memory.observations[k] = Iterations[k].observation
                /\ (k = iteration /\ pc = "reflecting") =>
                      /\ ~Complete
                      /\ final_response = DefaultFinalResponse

\* An intermediate_result action was recorded and the reflection call is awaited.
C24_Witness ==
    /\ pc = "reflecting"
    /\ action.action_type = "intermediate_result"
    /\ observation = <<"Result: ", "partial">>
    /\ final_response = DefaultFinalResponse
    /\ ~Complete

----------------------------------------------------------------------------
(* C25: the observation list is append-only and receives exactly one        *)
(* observation per acting phase that reached its dispatch, whatever the     *)
(* action was; the acting call of iteration k is built from exactly the     *)
(* observations of iterations 1 .. k - 1, in order; and there is one Action *)
(* Executor entry per acting phase.                                         *)

\* The acting phases whose dispatch has run to the store of the observation.
ActingPhasesDone ==
    { c \in CallsTo("execute_action") :
        ~(c = Len(calls) /\ pc \in {"acting", "raised"})
        /\ ~(c = Len(calls) - 1 /\ pc = "tool") }

C25_OneObservationPerActingPhase ==
    /\ Len(agent_memory.observations) = Cardinality(ActingPhasesDone)
    /\ Cardinality(EntriesOf("Action Executor")) = Cardinality(ActingPhasesDone)
    /\ \A k \in 1 .. Len(Iterations) :
          Has(Iterations[k], "observation") <=> k <= Len(agent_memory.observations)
    /\ \A k \in 1 .. Len(agent_memory.observations) :
          agent_memory.observations[k] = Iterations[k].observation
    /\ \A e \in EntriesOf("Action Executor") :
          \E k \in 1 .. Len(agent_memory.observations) :
              intermediate_steps[e].metadata.observation = agent_memory.observations[k]
    /\ \A c \in CallsTo("execute_action") :
          /\ calls[c].iteration - 1 <= Len(agent_memory.observations)
          /\ calls[c].context.observations =
                SubSeq(agent_memory.observations, 1, calls[c].iteration - 1)

\* Two acting phases with different observations: a tool result, then a final_result.
C25_Witness ==
    /\ Returned
    /\ agent_memory.observations = << <<"hi">>, <<"Result: ", "Done">> >>
    /\ calls[Len(calls)].context.observations = << <<"hi">> >>

----------------------------------------------------------------------------
(* C26: a result with the requested function name but without a required   *)
(* field is handled as a mismatch: execute() does not raise, every stored   *)
(* plan has its task_understanding and every stored action its action_type. *)

C26_InvalidShapeIsMismatch ==
    /\ pc # "raised"
    /\ \A k \in 1 .. Len(Iterations) :
          /\ Has(Iterations[k].plan, "task_understanding")
          /\ Has(Iterations[k], "action") => Has(Iterations[k].action, "action_type")

----------------------------------------------------------------------------
(* C30: the summarization call is made if and only if task_complete is      *)
(* false when the loop exits; it is made at most once, after the last       *)
(* iteration, and no planning, acting, reflection or handler call is issued *)
(* after it.                                                                *)

LoopExited == pc \in {"summarizing", "done"}

C30_SummaryOnlyAfterLoop ==
    /\ Cardinality(SummaryCalls) <= 1
    /\ LoopExited => (SummaryCalls # { } <=> ~Complete)
    /\ SummaryCalls # { } =>
          /\ LoopExited
          /\ SummaryCalls = {Len(calls)}
          /\ Last(calls).iteration = iteration
          /\ \A c \in 1 .. Len(calls) : calls[c].iteration <= iteration
          /\ ~LoopCondition(iteration, max_iterations, Complete)

\* Two full iterations, six structured calls, then the one summarization call.
C30_Witness ==
    /\ Returned
    /\ Len(calls) = 7
    /\ SummaryCalls = {7}
    /\ ~Complete


\* The call of one of the two client functions has come back.
ClientCameBack ==
    /\ argument.function \in {"generate_with_tools_async", "generate_text_async"}
    /\ result # NoValue

\* The first part of the first candidate of a response, if there is one.
HasFirstPart(response) ==
    /\ response.candidates # << >>
    /\ response.candidates[1].content.parts # << >>

FirstPart(response) == response.candidates[1].content.parts[1]

\* C27: a call of the structured generation client that comes back with a
\* result comes back with exactly one of two shapes: {type: tool_call, name,
\* arguments}, carrying the name and arguments of the function call, when the
\* response leads with a function call, and {type: text, content} otherwise,
\* so that text is never turned into a tool_call.  A fault of the provider is
\* raised to the caller, unchanged, by both client functions; nothing else is
\* raised but a response without a first part or a function call without
\* arguments.
C27_TwoShapesFaultsReRaised ==
    ClientCameBack =>
        LET o == argument.input
        IN  /\ o.raised => (result.raised /\ result.error = o.error)
            /\ (~o.raised /\ result.raised) =>
                   /\ argument.function = "generate_with_tools_async"
                   /\ \/ ~HasFirstPart(o.value)
                      \/ /\ Has(FirstPart(o.value), "function_call")
                         /\ FirstPart(o.value).function_call.args = NoValue
            /\ (~result.raised /\ argument.function = "generate_with_tools_async") =>
                   LET part == FirstPart(o.value)
                       r == result.value
                   IN  /\ r.type \in {"tool_call", "text"}
                       /\ r.type = "tool_call" <=> Has(part, "function_call")
                       /\ r.type = "tool_call" =>
                              /\ DOMAIN r = {"type", "name", "arguments"}
                              /\ r.name = part.function_call.name
                              /\ r.arguments = part.function_call.args
                       /\ r.type = "text" =>
                              /\ DOMAIN r = {"type", "content"}
                              /\ r.content = ResponseText(o.value)

\* A response that leads with text and carries a function call behind it has
\* come back as a text result.
C27_Witness ==
    /\ ClientCameBack
    /\ argument.function = "generate_with_tools_async"
    /\ ~argument.input.raised
    /\ HasFirstPart(argument.input.value)
    /\ Len(argument.input.value.candidates[1].content.parts) = 2
    /\ Has(FirstPart(argument.input.value), "text")
    /\ Has(argument.input.value.candidates[1].content.parts[2], "function_call")
    /\ ~result.raised
    /\ result.value = TextResult(FirstPart(argument.input.value).text)


\* A context has been built, from a persona handed in or from a catalog lookup.
ContextCameBack ==
    /\ argument.function \in {"generate_agent_context", "persona_lookup"}
    /\ result # NoValue

\* The catalog has no persona under the key looked up.
KeyAbsent ==
    /\ argument.function = "persona_lookup"
    /\ \/ ~Has(argument.input.catalog, "autonomous_agent")
       \/ ~Has(argument.input.catalog.autonomous_agent, argument.input.key)

\* No persona is supplied: None, the empty record, or an absent catalog key.
NoPersona ==
    \/ /\ argument.function = "generate_agent_context"
       /\ (DOMAIN argument.input = { } \/ argument.input = NoValue)
    \/ KeyAbsent

SuppliedPersona ==
    IF argument.function = "generate_agent_context"
    THEN argument.input
    ELSE argument.input.catalog.autonomous_agent[argument.input.key]

FieldLabel(f) ==
    IF f = "role" THEN "ROLE: " ELSE IF f = "persona" THEN "CHARACTER: " ELSE "FUNCTION: "

FieldDefault(f) ==
    IF f = "role" THEN <<"Assistant">>
    ELSE IF f = "persona" THEN <<"Helpful and knowledgeable">>
    ELSE <<"Provides helpful responses">>

\* C28: generate_agent_context comes back with a text and never fails; the
\* text is empty when no persona is supplied (None, the empty record, or a
\* catalog without "autonomous_agent" or without the agent's key); for a
\* persona with some fields, each line of the context shows the field's value
\* when it is present and the default when it is missing.
C28_EmptyOrDefaultedContext ==
    ContextCameBack =>
        /\ ~result.raised
        /\ IsText(result.value)
        /\ NoPersona => result.value = << >>
        /\ ~NoPersona =>
              LET p == SuppliedPersona
              IN  /\ \A f \in TextFields :
                        /\ Contains(result.value,
                                    <<FieldLabel(f)>> \o (IF Has(p, f) THEN p[f] ELSE FieldDefault(f)))
                        /\ Has(p, f) => ~Contains(result.value, FieldDefault(f))
                  /\ ~Has(p, "strengths") =>
                        Contains(result.value, <<"STRENGTHS: ", "Assistance">>)
                  /\ Has(p, "strengths") =>
                        /\ ~Contains(result.value, <<"Assistance">>)
                        /\ \A i \in 1 .. Len(p.strengths) :
                              Contains(result.value, p.strengths[i])
                        /\ Len(p.strengths) > 0 =>
                              Contains(result.value, <<"STRENGTHS: ">> \o p.strengths[1])

\* The catalog has the workflow's entry and other agents in it, but not the
\* agent looked up, and the context came back empty.
C28_Witness ==
    /\ ContextCameBack
    /\ KeyAbsent
    /\ Has(argument.input.catalog, "autonomous_agent")
    /\ DOMAIN argument.input.catalog.autonomous_agent # { }
    /\ result = Returns(<< >>)

\* A persona with a role only came back with the role and three defaults.
C28_PartialPersonaSeen ==
    /\ ContextCameBack
    /\ argument.function = "generate_agent_context"
    /\ argument.input # NoValue
    /\ DOMAIN argument.input = {"role"}
    /\ Contains(result.value, <<"ROLE: ", "Task Planner">>)
    /\ Contains(result.value, <<"CHARACTER: ", "Helpful and knowledgeable">>)


\* One of the four tool handlers has come back.
ToolHandlerCameBack ==
    /\ argument.function \in Handlers
    /\ result # NoValue

\* The text has a JSON member of this key and this string.
HasMember(t, k, v) == Contains(t, <<"\"", k, "\"", ": ", "\"">> \o v \o <<"\"">>)

\* The service came back with a dict that reports an error of its own.
ServiceReportedError ==
    /\ ~argument.input.outcome.raised
    /\ argument.input.outcome.value # NoValue
    /\ \/ /\ argument.function \in {"scrape_url", "search_information"}
          /\ Has(argument.input.outcome.value, "status")
          /\ argument.input.outcome.value.status = Str(<<"error">>)
          /\ Has(argument.input.outcome.value, "message")
       \/ /\ argument.function = "get_weather"
          /\ Has(argument.input.outcome.value, "error")

\* C29: whatever its service call comes back with (a result, a result that
\* reports an error, a raised exception, a result the handler cannot read or
\* encode), each of scrape_url, search_information, create_workspace and
\* get_weather returns a text and does not raise; when the service raised,
\* the text is JSON carrying the message of the exception (with status
\* "error", or under "error" for get_weather), and when the service reported
\* an error in its result, the text carries that report.
C29_ServiceFailureIsReturnedText ==
    ToolHandlerCameBack =>
        LET o == argument.input.outcome
        IN  /\ ~result.raised
            /\ IsText(result.value)
            /\ result.value # << >>
            /\ o.raised =>
                  IF argument.function = "get_weather"
                  THEN HasMember(result.value, "error", o.error)
                  ELSE /\ HasMember(result.value, "status", <<"error">>)
                       /\ HasMember(result.value, "message", o.error)
            /\ ServiceReportedError =>
                  IF argument.function = "get_weather"
                  THEN HasMember(result.value, "error", o.value.error.str)
                  ELSE /\ HasMember(result.value, "status", <<"error">>)
                       /\ HasMember(result.value, "message", o.value.message.str)

\* The service of scrape_url raised "permission denied" and the handler
\* returned the JSON text of the error.
C29_Witness ==
    /\ ToolHandlerCameBack
    /\ argument.function = "scrape_url"
    /\ argument.input.outcome = Raises(<<"permission denied">>)
    /\ ~result.raised
    /\ result.value = <<"{\n  ", "\"", "status", "\"", ": ", "\"", "error", "\"", ",\n  ",
                        "\"", "message", "\"", ": ", "\"", "permission denied", "\"", "\n}">>


----------------------------------------------------------------------------
(* C31: the loop is left before max_iterations passes only with             *)
(* task_complete true: once the loop has been left with task_complete false *)
(* and max_iterations >= 0, the counter and the number of recorded passes   *)
(* are max_iterations, and so is metadata.iterations of the returned Task   *)
(* Summarizer entry.                                                        *)

C31_EarlyExitOnlyWhenComplete ==
    /\ (LoopExited /\ ~Complete /\ max_iterations >= 0) =>
          /\ iteration = max_iterations
          /\ Len(Iterations) = max_iterations
    /\ (Returned /\ ~Complete /\ max_iterations >= 0) =>
          Last(intermediate_steps).metadata.iterations = max_iterations
    /\ (Returned /\ iteration < max_iterations) =>
          /\ Complete
          /\ Last(intermediate_steps).metadata.task_complete

\* Two passes were allowed and run, none completed the task, and execute() returned.
C31_Witness ==
    /\ Returned
    /\ ~Complete
    /\ max_iterations = 2
    /\ iteration = 2
    /\ Last(intermediate_steps).metadata.iterations = 2

----------------------------------------------------------------------------
(* C32: with max_iterations <= 0 the loop body never runs: no planning,     *)
(* acting or reflection call and no tool call is issued, the only call is   *)
(* the summarization call, and execute() returns a trace of exactly one     *)
(* entry, the Task Summarizer, with metadata.iterations = 0 and             *)
(* task_complete = false.                                                   *)

C32_NoBudgetGoesToSummary ==
    max_iterations <= 0 =>
        /\ pc \in {"start", "summarizing", "done"}
        /\ iteration = 0
        /\ ~Complete
        /\ Len(Iterations) = 0
        /\ \A c \in 1 .. Len(calls) : calls[c].kind = "generate_text_async"
        /\ pc = "start" => Len(calls) = 0
        /\ pc = "summarizing" => (Len(calls) = 1 /\ Len(intermediate_steps) = 0)
        /\ Returned =>
              /\ Len(calls) = 1
              /\ Len(intermediate_steps) = 1
              /\ intermediate_steps[1].agent_role = "Task Summarizer"
              /\ intermediate_steps[1].metadata.iterations = 0
              /\ intermediate_steps[1].metadata.task_complete = FALSE

\* execute(max_iterations = 0) has returned.
C32_Witness ==
    /\ Returned
    /\ max_iterations = 0
    /\ Len(calls) = 1
    /\ Len(intermediate_steps) = 1

----------------------------------------------------------------------------
(* C33: when a pass has ended (its reflection is awaited or done, or the    *)
(* loop has been left) the iteration counter, the number of records in      *)
(* memory's iterations and the number of observations are equal; when the   *)
(* planning call of a pass is awaited, both lists hold the passes before    *)
(* it; and the memory in the returned Task Summarizer metadata has as many  *)
(* records and observations as metadata.iterations says.                    *)

C33_CounterAndListsAgree ==
    /\ pc \in {"reflecting", "summarizing", "done"} =>
          /\ Len(Iterations) = iteration
          /\ Len(agent_memory.observations) = iteration
    /\ pc = "planning" =>
          /\ Len(Iterations) = iteration - 1
          /\ Len(agent_memory.observations) = iteration - 1
    /\ Returned =>
          LET metadata == Last(intermediate_steps).metadata
          IN  /\ Len(metadata.memory.iterations) = metadata.iterations
              /\ Len(metadata.memory.observations) = metadata.iterations

\* Returned after two passes: two records, two observations.
C33_Witness ==
    /\ Returned
    /\ iteration = 2
    /\ Len(Iterations) = 2
    /\ Len(agent_memory.observations) = 2
    /\ Last(intermediate_steps).metadata.iterations = 2


----------------------------------------------------------------------------
(* C34: a tool handler is invoked only from the acting phase of an          *)
(* iteration whose action is use_tool (the call before it is that           *)
(* iteration's execute_action call), at most once per iteration and at most *)
(* max_iterations times in all, and at most 3 * max_iterations + 1 LLM      *)
(* calls are issued.                                                        *)

ToolCalls == { c \in 1 .. Len(calls) : calls[c].kind = "tool" }

\* Handler calls are issued by the dispatch of a use_tool action, once per iteration.
HandlersOnlyFromUseTool ==
    /\ \A c \in ToolCalls :
          /\ c > 1
          /\ calls[c - 1].function = "execute_action"
          /\ calls[c - 1].iteration = calls[c].iteration
          /\ ActionOfCall(c).action_type = "use_tool"
    /\ \A k \in 1 .. MaxIterations + 1 : Cardinality(ToolCallsOf(k)) <= 1

C34_CallsWithinBudget ==
    /\ HandlersOnlyFromUseTool
    /\ Cardinality(ToolCalls) <= max_iterations
    /\ Cardinality(LLMCalls) <= 3 * max_iterations + 1

(* C34 as amended: the same, with the bounds taken over the number of       *)
(* passes a budget allows, max(max_iterations, 0): a negative budget allows *)
(* no pass and still costs the summarization call.                          *)

C34_CallsWithinEffectiveBudget ==
    /\ HandlersOnlyFromUseTool
    /\ Cardinality(ToolCalls) <= Max(max_iterations, 0)
    /\ Cardinality(ToolCalls) <= iteration
    /\ Cardinality(LLMCalls) <= 3 * Max(max_iterations, 0) + 1

\* Two passes, a handler invoked in each, every LLM call of the budget issued.
C34_Witness ==
    /\ Returned
    /\ max_iterations = 2
    /\ Cardinality(ToolCalls) = 2
    /\ Cardinality(LLMCalls) = 7


----------------------------------------------------------------------------
(* C35: a use_tool action whose tool_name is carried by a registry entry    *)
(* without a handler invokes no handler, gets the observation "Tool '...'   *)
(* not found or not executable.", leaves task_complete false, and is        *)
(* followed by the reflection call of its iteration.                        *)

\* Some registry entry carries the name and has no handler.
NamesHandlerlessEntry(tool_name) ==
    \E i \in 1 .. Len(available_tools) :
        /\ available_tools[i].name = tool_name
        /\ available_tools[i].function = "None"

\* Iteration k has recorded a use_tool action.
UsedTool(k) ==
    /\ Has(Iterations[k], "action")
    /\ Iterations[k].action.action_type = "use_tool"

C35_HandlerlessEntryInvokesNothing ==
    \A k \in 1 .. Len(Iterations) :
        (UsedTool(k) /\ NamesHandlerlessEntry(Get(Iterations[k].action, "tool_name", << >>))) =>
            /\ ToolCallsOf(k) = { }
            /\ Iterations[k].observation
                  = ToolNotFound(Get(Iterations[k].action, "tool_name", << >>))
            /\ \E c \in CallsTo("reflect_on_progress") : calls[c].iteration = k
            /\ k = iteration => (pc = "reflecting" => ~Complete)

\* The part of C35 that the code keeps: when no entry that carries the name has a
\* handler, nothing is invoked, the observation says so, and reflection follows.
C35_NoHandlerUnderTheName ==
    \A k \in 1 .. Len(Iterations) :
        (UsedTool(k) /\ FindTool(available_tools, Get(Iterations[k].action, "tool_name", << >>)) = 0) =>
            /\ ToolCallsOf(k) = { }
            /\ Iterations[k].observation
                  = ToolNotFound(Get(Iterations[k].action, "tool_name", << >>))
            /\ \E c \in CallsTo("reflect_on_progress") : calls[c].iteration = k
            /\ k = iteration => (pc = "reflecting" => ~Complete)

\* The action named "nofn", whose only entry has no handler: reflection is awaited.
C35_HandlerlessSeen ==
    /\ pc = "reflecting"
    /\ action.action_type = "use_tool"
    /\ action.tool_name = <<"nofn">>
    /\ observation = ToolNotFound(<<"nofn">>)
    /\ ToolCallsOf(iteration) = { }


----------------------------------------------------------------------------
(* C36: an action whose action_type is none of use_tool, reasoning,         *)
(* intermediate_result, final_result does not end the execution: no handler *)
(* is invoked, task_complete stays false, the observation is "No            *)
(* observation recorded.", action and observation are stored in the         *)
(* iteration's record, in the observation list and in an Action Executor    *)
(* entry of the trace, and the reflection call of the iteration is issued.  *)

ActionTypes == {"use_tool", "reasoning", "intermediate_result", "final_result"}

NoObservation == <<"No observation recorded.">>

C36_UnknownActionTypeGoesOn ==
    \A k \in 1 .. Len(Iterations) :
        (/\ Has(Iterations[k], "action")
         /\ Has(Iterations[k].action, "action_type")
         /\ Iterations[k].action.action_type \notin ActionTypes) =>
            /\ ToolCallsOf(k) = { }
            /\ Iterations[k].observation = NoObservation
            /\ agent_memory.observations[k] = NoObservation
            /\ \E e \in EntriesOf("Action Executor") :
                  /\ intermediate_steps[e].metadata.action = Iterations[k].action
                  /\ intermediate_steps[e].metadata.observation = NoObservation
                  /\ intermediate_steps[e].content
                        = <<"Unknown action type: ", Iterations[k].action.action_type,
                            "\n\nObservation: ">> \o NoObservation
            /\ \E c \in CallsTo("reflect_on_progress") : calls[c].iteration = k
            /\ k = iteration => (pc # "raised" /\ (pc = "reflecting" => ~Complete))

\* The action of type "noop" has been recorded and reflection is awaited.
C36_Witness ==
    /\ pc = "reflecting"
    /\ action.action_type = "noop"
    /\ observation = NoObservation
    /\ Last(agent_memory.observations) = NoObservation
    /\ ~Complete


----------------------------------------------------------------------------
(* C37: over any sequence of calls of get_llm_client(), by whichever        *)
(* execution, at most one GeminiAIClient is constructed, and every call     *)
(* that returns, returns that one object, which is the module global; a     *)
(* call made while the global is set returns it whatever the configuration  *)
(* is; a call whose construction raises leaves the global unset and raises  *)
(* the constructor's error to its caller; and a call made while the global  *)
(* is unset attempts construction again: it returns a new client when the   *)
(* configuration is usable and raises when it is not.                       *)

Usable(key) == key \notin {"undeclared", "", "unusable"}

C37_SingletonAccessor ==
    /\ Constructed <= 1
    /\ \A c \in 1 .. Len(calls) :
          LET call == calls[c]
          IN  /\ ~call.outcome.raised =>
                    /\ call.outcome.value = llm_client
                    /\ call.after = llm_client
                    /\ \A d \in 1 .. Len(calls) :
                          ~calls[d].outcome.raised => calls[d].outcome.value = call.outcome.value
              /\ call.before # NoValue =>
                    /\ ~call.outcome.raised
                    /\ call.outcome.value = call.before
                    /\ call.after = call.before
              /\ call.outcome.raised =>
                    /\ call.before = NoValue
                    /\ call.after = NoValue
                    /\ ~Usable(call.key)
                    /\ call.outcome.error = GeminiAIClient(call.key, 1).error
              /\ call.before = NoValue => (call.outcome.raised <=> ~Usable(call.key))
              /\ c > 1 => call.before = calls[c - 1].after
    /\ calls # << >> => llm_client = Last(calls).after

\* The first call raised for want of a key, the second built the client, and the
\* third, by the other execution and without a key, came back with the same client.
C37_Witness ==
    /\ Len(calls) = 3
    /\ calls[1].outcome = Raises(MissingConfiguration)
    /\ calls[2].key = "key"
    /\ calls[2].outcome = Returns(Instance(1))
    /\ calls[3].caller # calls[2].caller
    /\ calls[3].key = ""
    /\ calls[3].outcome = Returns(Instance(1))
    /\ llm_client = Instance(1)

====
